---- MODULE Spec2Model ----
(***************************************************************************)
(* A model of the array <-> keyed-container transformers of the reshape    *)
(* library: arrayToMap / arrayToRecord (src/src/array.ts), arrayToMultiMap *)
(* / arrayToMultiRecord (src/src/transformers/array.ts) and the reverse    *)
(* projections mapToArray and multiMapToArray (src/unnamed/part_002,       *)
(* src/src/transformers/map.ts).                                           *)
(*                                                                         *)
(* One behaviour is one call.  Init draws the arguments of the call; the   *)
(* actions are the steps of the called function: entry (argument checks,   *)
(* creation of the container), one action per loop iteration, and return.  *)
(* JavaScript values, objects (ordered own properties, prototype) and Maps *)
(* (insertion-ordered entries) are modelled explicitly.                    *)
(***************************************************************************)
EXTENDS Integers, Sequences, FiniteSets

VARIABLES
    heap,        \* the objects allocated so far: address -> object
    fn,          \* the function that was called
    array,       \* its first argument, when it is a builder
    data,        \* its first argument, when it is a reverse projection
    keyProp,     \* its key selector
    valueProps,  \* its value selector
    pc,          \* "called" | "loop" | "reverse" | "returned" | "thrown"
    idx,         \* number of input elements consumed by the loop
    map,         \* the Map under construction (sequence of entries)
    acc,         \* the record under construction (an object)
    out,         \* the array under construction (reverse projection)
    calls,       \* log of the selector-function invocations
    error        \* the error thrown, "none" if none

vars == <<heap, fn, array, data, keyProp, valueProps, pc, idx, map, acc, out, calls, error>>

----------------------------------------------------------------------------
(* Bounds of the model *)

\* longest input array
MaxLen == 3
\* largest integer whose decimal form is recognised as an integer-like
\* property name (JavaScript: 2^32 - 2); no number of the model exceeds it
MaxIndex == 40
\* most entries of a container given to a reverse projection
MaxEntries == 2
\* longest sequence of values under one key of a multi-valued container
MaxValues == 2

----------------------------------------------------------------------------
(* JavaScript values *)

Undef == [t |-> "undefined", n |-> 0, s |-> ""]
Null == [t |-> "null", n |-> 0, s |-> ""]
NaN == [t |-> "number", n |-> 0, s |-> "NaN"]
Num(i) == [t |-> "number", n |-> i, s |-> ""]
Str(x) == [t |-> "string", n |-> 0, s |-> x]
Ref(a) == [t |-> "object", n |-> a, s |-> ""]
\* a built-in object or function of the runtime (Object.prototype, ...)
Builtin(x) == [t |-> "builtin", n |-> 0, s |-> x]
Bool(b) == [t |-> "boolean", n |-> IF b THEN 1 ELSE 0, s |-> ""]

Digits == <<"0", "1", "2", "3", "4", "5", "6", "7", "8", "9">>

RECURSIVE NumToStr(_)
\* Number::toString for the non-negative integers of the model
NumToStr(i) ==
    IF i < 10 THEN Digits[i + 1]
    ELSE NumToStr(i \div 10) \o Digits[(i % 10) + 1]

\* ToString, as applied by template literals, + and property access
ToString(v) ==
    CASE v.t = "undefined" -> "undefined"
      [] v.t = "null" -> "null"
      [] v.t = "number" -> IF v.s = "NaN" THEN "NaN" ELSE NumToStr(v.n)
      [] v.t = "string" -> v.s
      [] v.t = "object" -> "[object Object]"
      [] v.t = "boolean" -> IF v.n = 1 THEN "true" ELSE "false"
      [] OTHER -> "function () { [native code] }"

\* ToPropertyKey: the name under which obj[v] reads or writes
ToPropertyKey(v) == ToString(v)

\* the decimal forms of the array indices: integer-like property names
IndexNames == { NumToStr(i) : i \in 0..MaxIndex }

IsIndexName(k) == k \in IndexNames

\* the integer an integer-like property name denotes
IndexOf(k) == CHOOSE i \in 0..MaxIndex : NumToStr(i) = k

\* String.prototype.toUpperCase on the strings of the model
ToUpperCase(s) ==
    CASE s = "Alice" -> "ALICE"
      [] s = "Bob" -> "BOB"
      [] s = "Carol" -> "CAROL"
      [] OTHER -> s

\* the + operator: concatenation if an operand is a string, else addition
Plus(a, b) ==
    IF a.t = "string" \/ b.t = "string" \/ a.t = "object" \/ b.t = "object"
    THEN Str(ToString(a) \o ToString(b))
    ELSE IF a.t = "number" /\ b.t = "number" /\ a.s = "" /\ b.s = ""
         THEN Num(a.n + b.n)
         ELSE NaN

----------------------------------------------------------------------------
(* JavaScript objects: a prototype and the own properties in the order     *)
(* OrdinaryOwnPropertyKeys enumerates them: integer-like names ascending,  *)
(* then the other names in creation order.                                 *)

ObjectPrototype == Builtin("Object.prototype")

\* the names every object inherits from Object.prototype
InheritedNames ==
    {"constructor", "toString", "valueOf", "hasOwnProperty", "__proto__",
     "isPrototypeOf", "propertyIsEnumerable", "toLocaleString"}

\* {}  (an object literal / Object.fromEntries result before any entry)
EmptyObject == [proto |-> ObjectPrototype, props |-> <<>>]

\* an accumulator that is a plain object literal
NullObject_Plain == [proto |-> ObjectPrototype, props |-> <<>>]

\* Object.create(null)
NullObject == [proto |-> Null, props |-> <<>>]

Keys(o) == [i \in 1..Len(o.props) |-> o.props[i].k]

HasOwn(o, k) == \E i \in 1..Len(o.props) : o.props[i].k = k

OwnGet(o, k) == o.props[CHOOSE i \in 1..Len(o.props) : o.props[i].k = k].v

\* position at which a new own property named k is enumerated
InsertPos(o, k) ==
    IF IsIndexName(k)
    THEN 1 + Cardinality({i \in 1..Len(o.props) :
                            /\ IsIndexName(o.props[i].k)
                            /\ IndexOf(o.props[i].k) < IndexOf(k)})
    ELSE Len(o.props) + 1

\* CreateDataProperty / the own-property part of [[Set]]
DefineOwn(o, k, v) ==
    IF HasOwn(o, k)
    THEN [o EXCEPT !.props =
            [i \in 1..Len(o.props) |->
                IF o.props[i].k = k THEN [k |-> k, v |-> v] ELSE o.props[i]]]
    ELSE LET p == InsertPos(o, k)
         IN [o EXCEPT !.props =
                SubSeq(o.props, 1, p - 1) \o <<[k |-> k, v |-> v]>>
                    \o SubSeq(o.props, p, Len(o.props))]

\* an assignment that leaves an existing property alone
ObjSet_KeepFirst(o, k, v) == IF HasOwn(o, k) THEN o ELSE DefineOwn(o, k, v)

\* obj[k] = v on an ordinary object: the inherited __proto__ setter of
\* Object.prototype replaces the prototype (objects and null only)
ObjSet(o, k, v) ==
    IF k = "__proto__" /\ o.proto # Null /\ ~HasOwn(o, k)
    THEN IF v.t \in {"object", "builtin", "null"} THEN [o EXCEPT !.proto = v] ELSE o
    ELSE DefineOwn(o, k, v)

\* what a name resolves to through the prototype p of an object
RECURSIVE InheritedGet(_, _, _)
InheritedGet(h, p, k) ==
    CASE p = ObjectPrototype ->
            IF k = "__proto__" THEN Null
            ELSE IF k \in InheritedNames
                 THEN Builtin("Object.prototype." \o k) ELSE Undef
      [] p.t = "object" ->
            IF HasOwn(h[p.n], k) THEN OwnGet(h[p.n], k)
            ELSE InheritedGet(h, h[p.n].proto, k)
      [] OTHER -> Undef

\* obj[k] on the object o
ObjGet(h, o, k) ==
    IF HasOwn(o, k) THEN OwnGet(o, k)
    ELSE IF k = "__proto__" /\ o.proto # Null THEN o.proto
         ELSE InheritedGet(h, o.proto, k)

\* item[k] for a value item: a property read of the object it refers to;
\* a primitive has none of the fields of the model, and the prototype of its
\* wrapper under __proto__
Get(h, item, k) ==
    IF item.t = "object" THEN ObjGet(h, h[item.n], k)
    ELSE IF k = "__proto__" /\ item.t \in {"string", "number", "boolean"}
         THEN Builtin(item.t \o ".prototype")
         ELSE Undef

\* an object literal { k1: v1, k2: v2, ... }
RECURSIVE Literal(_)
Literal(pairs) ==
    IF pairs = <<>> THEN EmptyObject
    ELSE DefineOwn(Literal(SubSeq(pairs, 1, Len(pairs) - 1)),
                   pairs[Len(pairs)][1], pairs[Len(pairs)][2])

----------------------------------------------------------------------------
(* JavaScript Map: entries in insertion order, keys compared by            *)
(* SameValueZero (equality of the modelled values)                         *)

MapHas(m, k) == \E i \in 1..Len(m) : m[i].k = k

MapGet(m, k) == m[CHOOSE i \in 1..Len(m) : m[i].k = k].v

\* a set that leaves an existing entry alone (first writer wins)
MapSet_KeepFirst(m, k, v) ==
    IF MapHas(m, k) THEN m ELSE Append(m, [k |-> k, v |-> v])

\* a set that moves an existing key to the end (delete, then insert)
MapSet_MoveToEnd(m, k, v) ==
    Append(SelectSeq(m, LAMBDA e : e.k # k), [k |-> k, v |-> v])

\* Map.prototype.set: an existing key keeps its position and gets the value
MapSet(m, k, v) ==
    IF MapHas(m, k)
    THEN [i \in 1..Len(m) |-> IF m[i].k = k THEN [k |-> k, v |-> v] ELSE m[i]]
    ELSE Append(m, [k |-> k, v |-> v])

MapKeys(m) == [i \in 1..Len(m) |-> m[i].k]

----------------------------------------------------------------------------
(* Selectors: absent, a field name, a list of field names, or a function  *)

Absent == [kind |-> "undefined", name |-> "", names |-> <<>>]
Prop(x) == [kind |-> "prop", name |-> x, names |-> <<>>]
List(xs) == [kind |-> "list", name |-> "", names |-> xs]
Fn(x) == [kind |-> "fn", name |-> x, names |-> <<>>]

\* the property name a selector denotes in item[selector]: a field name is
\* itself, a function is converted to its source text (no field has it)
SelectorKey(sel) ==
    IF sel.kind = "prop" THEN sel.name ELSE "function " \o sel.name

\* outcome of evaluating a selector on an item
Ok(h, v) == [thrown |-> FALSE, error |-> "none", v |-> v, heap |-> h]
Throw(h, e) == [thrown |-> TRUE, error |-> e, v |-> Undef, heap |-> h]

\* the selector functions of the documentation and the tests:
\*   upperName    item => item.name.toUpperCase()
\*   nameDashAge  item => `${item.name}-${item.age}`
\*   nameAgeObj   ({ name, age }) => ({ nameAge: name + age })
ApplyFn(h, f, item) ==
    CASE f = "upperName" ->
            LET nm == Get(h, item, "name")
            IN IF nm.t = "string" THEN Ok(h, Str(ToUpperCase(nm.s)))
               ELSE Throw(h, "TypeError")
      [] f = "nameDashAge" ->
            Ok(h, Str(ToString(Get(h, item, "name")) \o "-"
                        \o ToString(Get(h, item, "age"))))
      [] f = "nameAgeObj" ->
            Ok(Append(h, DefineOwn(EmptyObject, "nameAge",
                                   Plus(Get(h, item, "name"), Get(h, item, "age")))),
               Ref(Len(h) + 1))

\* a getKey that reads item[keyProp] whatever keyProp is
GetKey_FieldOnly(h, kp, item) == Ok(h, Get(h, item, SelectorKey(kp)))

\* a getKey that fails for a record without the key field
GetKey_Strict(h, kp, item) ==
    IF kp.kind = "fn" THEN ApplyFn(h, kp.name, item)
    ELSE IF item.t = "object" /\ ~HasOwn(h[item.n], kp.name)
         THEN Throw(h, "Error")
         ELSE Ok(h, Get(h, item, kp.name))

\* getKey of arrayToMap / arrayToRecord
GetKey(h, kp, item) ==
    IF kp.kind = "fn" THEN ApplyFn(h, kp.name, item)
    ELSE Ok(h, Get(h, item, kp.name))

\* a sub-record that is a copy of the whole record
PickProps_All(h, props, item) == h[item.n]

RECURSIVE PickProps(_, _, _)
\* const obj = {}; for (const prop of props) obj[prop] = item[prop];
PickProps(h, props, item) ==
    IF props = <<>> THEN EmptyObject
    ELSE LET prop == props[Len(props)]
         IN ObjSet(PickProps(h, SubSeq(props, 1, Len(props) - 1), item),
                   prop, Get(h, item, prop))

\* a dispatch without the function case: a function is read as a field name
GetValue_NoFn(h, vp, item) ==
    IF vp.kind = "undefined" THEN Ok(h, item)
    ELSE IF vp.kind = "list"
         THEN Ok(Append(h, PickProps(h, vp.names, item)), Ref(Len(h) + 1))
         ELSE Ok(h, Get(h, item, SelectorKey(vp)))

\* a getValue that overwrites the record with its sub-record
GetValue_InPlace(h, vp, item) ==
    IF vp.kind = "undefined" THEN Ok(h, item)
    ELSE IF vp.kind = "fn" THEN ApplyFn(h, vp.name, item)
    ELSE IF vp.kind = "list"
         THEN Ok([h EXCEPT ![item.n] = PickProps(h, vp.names, item)], item)
         ELSE Ok(h, Get(h, item, vp.name))

\* a getValue that stores a copy of the record when no selector is given
GetValue_Copy(h, vp, item) ==
    IF vp.kind = "undefined" THEN Ok(Append(h, h[item.n]), Ref(Len(h) + 1))
    ELSE IF vp.kind = "fn" THEN ApplyFn(h, vp.name, item)
    ELSE IF vp.kind = "list"
         THEN Ok(Append(h, PickProps(h, vp.names, item)), Ref(Len(h) + 1))
         ELSE Ok(h, Get(h, item, vp.name))

\* getValue of arrayToMap / arrayToRecord: the dispatch over the selector
GetValue(h, vp, item) ==
    IF vp.kind = "undefined" THEN Ok(h, item)
    ELSE IF vp.kind = "fn" THEN ApplyFn(h, vp.name, item)
    ELSE IF vp.kind = "list"
         THEN Ok(Append(h, PickProps(h, vp.names, item)), Ref(Len(h) + 1))
         ELSE Ok(h, Get(h, item, vp.name))

\* a key function that is invoked twice for each item
KeyCall_Twice(kp, i) ==
    IF kp.kind = "fn" THEN <<[sel |-> "key", i |-> i], [sel |-> "key", i |-> i]>>
    ELSE <<>>

\* the entries the log of selector invocations gains for one item
KeyCall(kp, i) == IF kp.kind = "fn" THEN <<[sel |-> "key", i |-> i]>> ELSE <<>>
ValueCall(vp, i) == IF vp.kind = "fn" THEN <<[sel |-> "value", i |-> i]>> ELSE <<>>

----------------------------------------------------------------------------
(* Inputs *)

\* the records input arrays are made of (heap addresses 1..Len(Pool)):
\* two records sharing an id and a name, a numeric and a string id with the
\* same string form, a record without name that has an integer-like field,
\* an id that is a name every plain object inherits, a record with neither
\* id nor name, and an id that names the prototype accessor
Pool ==
    << Literal(<< <<"id", Num(1)>>, <<"name", Str("Alice")>>, <<"age", Num(25)>> >>),
       Literal(<< <<"id", Num(2)>>, <<"name", Str("Bob")>>, <<"age", Num(30)>> >>),
       Literal(<< <<"id", Num(1)>>, <<"name", Str("Alice")>>, <<"age", Num(30)>> >>),
       Literal(<< <<"id", Str("1")>>, <<"age", Num(30)>>, <<"0", Str("z")>> >>),
       Literal(<< <<"id", Str("constructor")>>, <<"name", Str("Carol")>>,
                  <<"age", Num(35)>> >>),
       Literal(<< <<"age", Num(20)>> >>),
       Literal(<< <<"id", Str("__proto__")>>, <<"name", Str("Dave")>>,
                  <<"age", Num(40)>> >>) >>

RECURSIVE SeqsUpTo(_, _)
\* the sequences over S of length at most n
SeqsUpTo(S, n) ==
    IF n = 0 THEN {<<>>}
    ELSE LET shorter == SeqsUpTo(S, n - 1)
         IN shorter \cup {Append(q, x) : q \in shorter, x \in S}

ArrayOf(items) == [kind |-> "array", items |-> items]

\* the arrays of at most MaxLen records taken from the addresses S
ArraysOver(S) == { ArrayOf(q) : q \in SeqsUpTo({Ref(a) : a \in S}, MaxLen) }

\* the inputs of the single-valued and of the multi-valued builders
Arrays == ArraysOver({1, 2, 3, 4})
MultiArrays == ArraysOver({1, 2, 3, 5})

\* first arguments that are not arrays: iterables and absent values
NonArrays ==
    { [kind |-> "string", items |-> <<Str("a"), Str("b")>>],
      [kind |-> "set", items |-> <<Ref(1), Ref(2)>>],
      [kind |-> "undefined", items |-> <<>>],
      [kind |-> "null", items |-> <<>>] }

\* a check that also rejects the empty array
IsArray_NonEmpty(a) == a.kind = "array" /\ a.items # <<>>

\* a check of iterability instead of Array.isArray
IsArray_Iterable(a) == a.kind \in {"array", "string", "set"}

\* Array.isArray
IsArray(a) == a.kind = "array"

KeySelectors == {Prop("id"), Prop("name"), Fn("upperName"), Fn("nameDashAge")}

ValueSelectors ==
    {Absent, Prop("name"), List(<<"name">>), List(<<"name", "age">>),
     List(<<"age", "0", "age">>), Fn("nameAgeObj"), Fn("upperName")}

\* the first argument of a reverse projection: a Map or a record
MapData(m) == [kind |-> "map", entries |-> m, obj |-> NullObject]
RecordData(o) == [kind |-> "record", entries |-> <<>>, obj |-> o]
NoData == [kind |-> "none", entries |-> <<>>, obj |-> NullObject]

InitWith(fns, inputs, kps, vps) ==
    /\ heap = Pool
    /\ fn \in fns
    /\ array \in inputs
    /\ data = NoData
    /\ keyProp \in kps
    /\ valueProps \in vps
    /\ pc = "called"
    /\ idx = 0
    /\ map = <<>>
    /\ acc = EmptyObject
    /\ out = <<>>
    /\ calls = <<>>
    /\ error = "none"

----------------------------------------------------------------------------
(* arrayToMap of src/src/array.ts *)

ArrayToMap_Enter ==
    /\ pc = "called" /\ fn = "arrayToMap"
    /\ IF ~IsArray(array)
       THEN pc' = "thrown" /\ error' = "TypeError" /\ map' = map
       ELSE pc' = "loop" /\ error' = error /\ map' = <<>>
    /\ UNCHANGED <<heap, fn, array, data, keyProp, valueProps, idx, acc, out, calls>>

\* a loop that skips a record whose selector fails and goes on to the next
ArrayToMap_Iterate_SkipFailed ==
    /\ pc = "loop" /\ fn = "arrayToMap" /\ idx < Len(array.items)
    /\ LET item == array.items[idx + 1]
           k == GetKey(heap, keyProp, item)
           v == GetValue(k.heap, valueProps, item)
       IN /\ map' = IF k.thrown \/ v.thrown THEN map ELSE MapSet(map, k.v, v.v)
          /\ heap' = IF k.thrown THEN heap ELSE v.heap
          /\ idx' = idx + 1
          /\ calls' = calls \o KeyCall(keyProp, idx + 1)
                        \o (IF k.thrown THEN <<>> ELSE ValueCall(valueProps, idx + 1))
          /\ UNCHANGED <<pc, error>>
    /\ UNCHANGED <<fn, array, data, keyProp, valueProps, acc, out>>

ArrayToMap_Iterate ==
    /\ pc = "loop" /\ fn = "arrayToMap" /\ idx < Len(array.items)
    /\ LET item == array.items[idx + 1]
           k == GetKey(heap, keyProp, item)
           v == GetValue(k.heap, valueProps, item)
       IN IF k.thrown
          THEN /\ pc' = "thrown" /\ error' = k.error
               /\ calls' = calls \o KeyCall(keyProp, idx + 1)
               /\ UNCHANGED <<heap, idx, map>>
          ELSE IF v.thrown
          THEN /\ pc' = "thrown" /\ error' = v.error
               /\ calls' = calls \o KeyCall(keyProp, idx + 1) \o ValueCall(valueProps, idx + 1)
               /\ heap' = k.heap
               /\ UNCHANGED <<idx, map>>
          ELSE /\ map' = MapSet(map, k.v, v.v)
               /\ heap' = v.heap
               /\ idx' = idx + 1
               /\ calls' = calls \o KeyCall(keyProp, idx + 1) \o ValueCall(valueProps, idx + 1)
               /\ UNCHANGED <<pc, error>>
    /\ UNCHANGED <<fn, array, data, keyProp, valueProps, acc, out>>

ArrayToMap_Return ==
    /\ pc = "loop" /\ fn = "arrayToMap" /\ idx = Len(array.items)
    /\ pc' = "returned"
    /\ UNCHANGED <<heap, fn, array, data, keyProp, valueProps, idx, map, acc, out, calls, error>>

----------------------------------------------------------------------------
(* arrayToRecord of src/src/array.ts *)

ArrayToRecord_Enter ==
    /\ pc = "called" /\ fn = "arrayToRecord"
    /\ IF ~IsArray(array)
       THEN pc' = "thrown" /\ error' = "TypeError" /\ acc' = acc
       ELSE pc' = "loop" /\ error' = error /\ acc' = NullObject
    /\ UNCHANGED <<heap, fn, array, data, keyProp, valueProps, idx, map, out, calls>>

ArrayToRecord_Iterate ==
    /\ pc = "loop" /\ fn = "arrayToRecord" /\ idx < Len(array.items)
    /\ LET item == array.items[idx + 1]
           k == GetKey(heap, keyProp, item)
           v == GetValue(k.heap, valueProps, item)
       IN IF k.thrown
          THEN /\ pc' = "thrown" /\ error' = k.error
               /\ calls' = calls \o KeyCall(keyProp, idx + 1)
               /\ UNCHANGED <<heap, idx, acc>>
          ELSE IF v.thrown
          THEN /\ pc' = "thrown" /\ error' = v.error
               /\ calls' = calls \o KeyCall(keyProp, idx + 1) \o ValueCall(valueProps, idx + 1)
               /\ heap' = k.heap
               /\ UNCHANGED <<idx, acc>>
          ELSE /\ acc' = ObjSet(acc, ToPropertyKey(k.v), v.v)
               /\ heap' = v.heap
               /\ idx' = idx + 1
               /\ calls' = calls \o KeyCall(keyProp, idx + 1) \o ValueCall(valueProps, idx + 1)
               /\ UNCHANGED <<pc, error>>
    /\ UNCHANGED <<fn, array, data, keyProp, valueProps, map, out>>

ArrayToRecord_Return ==
    /\ pc = "loop" /\ fn = "arrayToRecord" /\ idx = Len(array.items)
    /\ pc' = "returned"
    /\ UNCHANGED <<heap, fn, array, data, keyProp, valueProps, idx, map, acc, out, calls, error>>

----------------------------------------------------------------------------
(* The single-valued builders of src/src/array.ts *)

InitSingle ==
    InitWith({"arrayToMap", "arrayToRecord"}, Arrays \cup NonArrays,
             KeySelectors, ValueSelectors)

NextSingle ==
    \/ ArrayToMap_Enter
    \/ ArrayToMap_Iterate
    \/ ArrayToMap_Return
    \/ ArrayToRecord_Enter
    \/ ArrayToRecord_Iterate
    \/ ArrayToRecord_Return

SpecSingle == InitSingle /\ [][NextSingle]_vars

----------------------------------------------------------------------------
(* The multi-valued builders of src/src/transformers/array.ts *)

RECURSIVE FromEntries(_, _, _)
\* Object.fromEntries(valueProps.map((prop) => [prop, item[prop]]))
FromEntries(h, props, item) ==
    IF props = <<>> THEN EmptyObject
    ELSE LET prop == props[Len(props)]
         IN DefineOwn(FromEntries(h, SubSeq(props, 1, Len(props) - 1), item),
                      prop, Get(h, item, prop))

\* the value expression of the builders of transformers/array.ts
GetValueT(h, vp, item) ==
    IF vp.kind = "undefined" THEN Ok(h, item)
    ELSE IF vp.kind = "list"
         THEN Ok(Append(h, FromEntries(h, vp.names, item)), Ref(Len(h) + 1))
         ELSE Ok(h, Get(h, item, SelectorKey(vp)))

\* an add that puts the new value first
MultiMapAdd_Prepend(m, k, v) ==
    IF MapHas(m, k)
    THEN MapSet(m, k, <<v>> \o MapGet(m, k))
    ELSE MapSet(m, k, <<v>>)

\* an add that starts a new sequence on every call
MultiMapAdd_Replace(m, k, v) == MapSet(m, k, <<v>>)

\* an add that puts a new key before the keys already present
MultiMapAdd_NewKeyFirst(m, k, v) ==
    IF MapHas(m, k)
    THEN MapSet(m, k, Append(MapGet(m, k), v))
    ELSE <<[k |-> k, v |-> <<v>>]>> \o m

\* an add in which a new key replaces the keys already present
MultiMapAdd_Evict(m, k, v) ==
    IF MapHas(m, k)
    THEN MapSet(m, k, Append(MapGet(m, k), v))
    ELSE <<[k |-> k, v |-> <<v>>]>>

\* let values = multiMap.get(key); if (values === undefined) { values = [];
\* multiMap.set(key, values); } values.push(value);
MultiMapAdd(m, k, v) ==
    IF MapHas(m, k)
    THEN MapSet(m, k, Append(MapGet(m, k), v))
    ELSE MapSet(m, k, <<v>>)

\* Array.prototype.forEach exists on arrays; Set.prototype.forEach on sets
HasForEach(a) == a.kind \in {"array", "set"}

ArrayToMultiMap_Enter ==
    /\ pc = "called" /\ fn = "arrayToMultiMap"
    /\ IF ~HasForEach(array)
       THEN pc' = "thrown" /\ error' = "TypeError" /\ map' = map
       ELSE pc' = "loop" /\ error' = error /\ map' = <<>>
    /\ UNCHANGED <<heap, fn, array, data, keyProp, valueProps, idx, acc, out, calls>>

ArrayToMultiMap_Iterate ==
    /\ pc = "loop" /\ fn = "arrayToMultiMap" /\ idx < Len(array.items)
    /\ LET item == array.items[idx + 1]
           key == Get(heap, item, SelectorKey(keyProp))
           v == GetValueT(heap, valueProps, item)
       IN /\ map' = MultiMapAdd(map, key, v.v)
          /\ heap' = v.heap
          /\ idx' = idx + 1
    /\ UNCHANGED <<fn, array, data, keyProp, valueProps, pc, acc, out, calls, error>>

ArrayToMultiMap_Return ==
    /\ pc = "loop" /\ fn = "arrayToMultiMap" /\ idx = Len(array.items)
    /\ pc' = "returned"
    /\ UNCHANGED <<heap, fn, array, data, keyProp, valueProps, idx, map, acc, out, calls, error>>

ArrayToMultiRecord_Enter ==
    /\ pc = "called" /\ fn = "arrayToMultiRecord"
    /\ IF ~IsArray(array)
       THEN pc' = "thrown" /\ error' = "TypeError" /\ acc' = acc
       ELSE pc' = "loop" /\ error' = error /\ acc' = EmptyObject
    /\ UNCHANGED <<heap, fn, array, data, keyProp, valueProps, idx, map, out, calls>>

\* the reducer: let values = acc[key]; if (values === undefined) { values = [];
\* acc[key] = values; } values.push(value);  A name acc inherits is not
\* undefined and has no push method.
ArrayToMultiRecord_Iterate ==
    /\ pc = "loop" /\ fn = "arrayToMultiRecord" /\ idx < Len(array.items)
    /\ LET item == array.items[idx + 1]
           key == ToPropertyKey(Get(heap, item, SelectorKey(keyProp)))
           v == GetValueT(heap, valueProps, item)
       IN IF HasOwn(acc, key)
          THEN /\ acc' = DefineOwn(acc, key, Append(OwnGet(acc, key), v.v))
               /\ heap' = v.heap /\ idx' = idx + 1
               /\ UNCHANGED <<pc, error>>
          ELSE IF ObjGet(heap, acc, key) = Undef
          THEN /\ acc' = DefineOwn(acc, key, <<v.v>>)
               /\ heap' = v.heap /\ idx' = idx + 1
               /\ UNCHANGED <<pc, error>>
          ELSE /\ pc' = "thrown" /\ error' = "TypeError"
               /\ heap' = v.heap
               /\ UNCHANGED <<acc, idx>>
    /\ UNCHANGED <<fn, array, data, keyProp, valueProps, map, out, calls>>

ArrayToMultiRecord_Return ==
    /\ pc = "loop" /\ fn = "arrayToMultiRecord" /\ idx = Len(array.items)
    /\ pc' = "returned"
    /\ UNCHANGED <<heap, fn, array, data, keyProp, valueProps, idx, map, acc, out, calls, error>>

\* the selectors the types of transformers/array.ts admit
FieldSelectors == {Prop("id"), Prop("name")}

FieldValueSelectors ==
    {Absent, Prop("name"), Prop("age"), List(<<"name">>), List(<<"name", "age">>),
     List(<<"age", "0", "age">>)}

InitMulti ==
    InitWith({"arrayToMultiMap", "arrayToMultiRecord"}, MultiArrays,
             FieldSelectors, FieldValueSelectors)

NextMulti ==
    \/ ArrayToMultiMap_Enter
    \/ ArrayToMultiMap_Iterate
    \/ ArrayToMultiMap_Return
    \/ ArrayToMultiRecord_Enter
    \/ ArrayToMultiRecord_Iterate
    \/ ArrayToMultiRecord_Return

SpecMulti == InitMulti /\ [][NextMulti]_vars

----------------------------------------------------------------------------
(* The four builders *)

Init == InitSingle \/ InitMulti

Next == NextSingle \/ NextMulti

Spec == Init /\ [][Next]_vars

----------------------------------------------------------------------------
(* arrayToMap followed by arrayToRecord on the same arguments, as the      *)
(* tests of src/src/array.test.ts call them                                *)

ThenArrayToRecord ==
    /\ pc = "returned" /\ fn = "arrayToMap"
    /\ fn' = "arrayToRecord"
    /\ pc' = "called"
    /\ idx' = 0
    /\ UNCHANGED <<heap, array, data, keyProp, valueProps, map, acc, out, calls, error>>

InitPair ==
    InitWith({"arrayToMap"}, Arrays, KeySelectors,
             {Absent, Prop("age"), List(<<"name", "age">>), Fn("nameAgeObj")})

NextPair == NextSingle \/ ThenArrayToRecord

SpecPair == InitPair /\ [][NextPair]_vars

----------------------------------------------------------------------------
(* The reverse projections: mapToArray of src/unnamed/part_002 (two        *)
(* arguments) and of src/src/transformers/map.ts (optional value selector) *)

\* an iteration that visits the entries last to first
DataEntries_Reversed(d) ==
    IF d.kind = "map"
    THEN [i \in 1..Len(d.entries) |-> d.entries[Len(d.entries) + 1 - i]]
    ELSE [i \in 1..Len(d.obj.props) |->
            [k |-> Str(d.obj.props[Len(d.obj.props) + 1 - i].k),
             v |-> d.obj.props[Len(d.obj.props) + 1 - i].v]]

\* data instanceof Map ? data.entries() : Object.entries(data)
DataEntries(d) ==
    IF d.kind = "map" THEN d.entries
    ELSE [i \in 1..Len(d.obj.props) |->
            [k |-> Str(d.obj.props[i].k), v |-> d.obj.props[i].v]]

RECURSIVE CopyProps(_, _)
\* { ...source } into the object o: the own properties, in their order
CopyProps(o, props) ==
    IF props = <<>> THEN o
    ELSE CopyProps(DefineOwn(o, props[1].k, props[1].v), Tail(props))

\* a reverse projection that treats every value as a scalar
MapToArrayRecord_AsScalar(h, kp, key, value) ==
    DefineOwn(DefineOwn(EmptyObject, kp, key), "value", value)

\* a reverse projection that drops the scalar and keeps only the key
MapToArrayRecord_KeyOnly(h, kp, key, value) ==
    IF value.t = "object"
    THEN DefineOwn(CopyProps(EmptyObject, h[value.n].props), kp, key)
    ELSE DefineOwn(EmptyObject, kp, key)

\* a reverse projection in which a field of the value replaces the key
MapToArrayRecord_ValueWins(h, kp, key, value) ==
    IF value.t = "object"
    THEN CopyProps(DefineOwn(EmptyObject, kp, key), h[value.n].props)
    ELSE DefineOwn(DefineOwn(EmptyObject, kp, key), "value", value)

\* typeof value === 'object' && value !== null
\*     ? { ...value, [keyProp]: key } : { [keyProp]: key, value }
MapToArrayRecord(h, kp, key, value) ==
    IF value.t = "object"
    THEN DefineOwn(CopyProps(EmptyObject, h[value.n].props), kp, key)
    ELSE DefineOwn(DefineOwn(EmptyObject, kp, key), "value", value)

MapToArray_Enter ==
    /\ pc = "called" /\ fn = "mapToArray"
    /\ pc' = "reverse"
    /\ idx' = 0
    /\ out' = <<>>
    /\ UNCHANGED <<heap, fn, array, data, keyProp, valueProps, map, acc, calls, error>>

MapToArray_Iterate ==
    /\ pc = "reverse" /\ fn = "mapToArray" /\ idx < Len(DataEntries(data))
    /\ LET entry == DataEntries(data)[idx + 1]
       IN /\ heap' = Append(heap, MapToArrayRecord(heap, keyProp.name, entry.k, entry.v))
          /\ out' = Append(out, Ref(Len(heap) + 1))
          /\ idx' = idx + 1
    /\ UNCHANGED <<fn, array, data, keyProp, valueProps, pc, map, acc, calls, error>>

MapToArray_Return ==
    /\ pc = "reverse" /\ fn = "mapToArray" /\ idx = Len(DataEntries(data))
    /\ pc' = "returned"
    /\ UNCHANGED <<heap, fn, array, data, keyProp, valueProps, idx, map, acc, out, calls, error>>

RECURSIVE ReducePick(_, _, _)
\* valueProps.reduce((acc, prop) => ({ ...acc, [prop]: value[prop] }), {})
ReducePick(h, props, value) ==
    IF props = <<>> THEN EmptyObject
    ELSE LET prop == props[Len(props)]
         IN DefineOwn(ReducePick(h, SubSeq(props, 1, Len(props) - 1), value),
                      prop, Get(h, value, prop))

\* the properties the spread of the selected part of a value contributes:
\* all own properties of an object value (a number, undefined or null
\* spreads to nothing), the listed fields, or the one selected field
SelectedProps(h, vp, value) ==
    IF vp.kind = "undefined"
    THEN IF value.t = "object" THEN h[value.n].props ELSE <<>>
    ELSE IF vp.kind = "list" THEN ReducePick(h, vp.names, value).props
         ELSE <<[k |-> SelectorKey(vp), v |-> Get(h, value, SelectorKey(vp))]>>

\* a property read value[prop] throws on undefined and null
ReadThrows(vp, value) ==
    /\ value.t \in {"undefined", "null"}
    /\ vp.kind = "prop" \/ (vp.kind = "list" /\ vp.names # <<>>)

\* { [keyProp]: key, ...(the selected part of value) }
MapToArrayRecordT(h, kp, key, vp, value) ==
    CopyProps(DefineOwn(EmptyObject, kp, key), SelectedProps(h, vp, value))

MapToArrayT_Enter ==
    /\ pc = "called" /\ fn = "transformers/mapToArray"
    /\ pc' = "reverse"
    /\ idx' = 0
    /\ out' = <<>>
    /\ UNCHANGED <<heap, fn, array, data, keyProp, valueProps, map, acc, calls, error>>

MapToArrayT_Iterate ==
    /\ pc = "reverse" /\ fn = "transformers/mapToArray" /\ idx < Len(DataEntries(data))
    /\ LET entry == DataEntries(data)[idx + 1]
       IN IF ReadThrows(valueProps, entry.v)
          THEN /\ pc' = "thrown" /\ error' = "TypeError"
               /\ UNCHANGED <<heap, out, idx>>
          ELSE /\ heap' = Append(heap, MapToArrayRecordT(heap, keyProp.name, entry.k,
                                                         valueProps, entry.v))
               /\ out' = Append(out, Ref(Len(heap) + 1))
               /\ idx' = idx + 1
               /\ UNCHANGED <<pc, error>>
    /\ UNCHANGED <<fn, array, data, keyProp, valueProps, map, acc, calls>>

MapToArrayT_Return ==
    /\ pc = "reverse" /\ fn = "transformers/mapToArray" /\ idx = Len(DataEntries(data))
    /\ pc' = "returned"
    /\ UNCHANGED <<heap, fn, array, data, keyProp, valueProps, idx, map, acc, out, calls, error>>

NextReverse ==
    \/ MapToArray_Enter
    \/ MapToArray_Iterate
    \/ MapToArray_Return
    \/ MapToArrayT_Enter
    \/ MapToArrayT_Iterate
    \/ MapToArrayT_Return

----------------------------------------------------------------------------
(* The multi-valued reverse projections: multiMapToArray of                *)
(* src/unnamed/part_002 (valueProps required) and of                       *)
(* src/src/transformers/map.ts (valueProps optional)                       *)

\* the name a selector denotes as a computed property name
ComputedName(vp) == IF vp.kind = "undefined" THEN "undefined" ELSE SelectorKey(vp)

\* ...value: the own properties of an object; a number, a boolean,
\* undefined and null contribute nothing
SpreadProps(h, value) == IF value.t = "object" THEN h[value.n].props ELSE <<>>

\* Array.isArray(valueProps) ? valueProps.reduce(...) : { [valueProps]: value }
NamedProps(h, vp, value) ==
    IF vp.kind = "list" THEN ReducePick(h, vp.names, value).props
    ELSE <<[k |-> ComputedName(vp), v |-> value]>>

\* { [keyProp]: key, ...(selection) } of src/unnamed/part_002
MultiMapToArrayRecord(h, kp, key, vp, value) ==
    CopyProps(DefineOwn(EmptyObject, kp, key), NamedProps(h, vp, value))

\* the condition valueProps ? ... : ...: undefined and '' are falsy
Truthy(vp) == ~(vp.kind = "undefined" \/ (vp.kind = "prop" /\ vp.name = ""))

\* { [keyProp]: key, ...(valueProps ? selection : { ...value }) } of
\* src/src/transformers/map.ts
MultiMapToArrayRecordT(h, kp, key, vp, value) ==
    CopyProps(DefineOwn(EmptyObject, kp, key),
              IF Truthy(vp) THEN NamedProps(h, vp, value) ELSE SpreadProps(h, value))

\* value[prop] is read, of a value that is undefined or null
MultiReadThrows(vp, values) ==
    /\ vp.kind = "list" /\ vp.names # <<>>
    /\ \E j \in 1..Len(values) : values[j].t \in {"undefined", "null"}

\* a flattening that puts the records of an entry before those of the
\* entries processed earlier
FlatAppend_Front(o, refs) == refs \o o

\* entries.flatMap(...): the records of an entry follow those of the
\* entries before it
FlatAppend(o, refs) == o \o refs

MultiMapToArray_Enter ==
    /\ pc = "called" /\ fn = "multiMapToArray"
    /\ pc' = "reverse"
    /\ idx' = 0
    /\ out' = <<>>
    /\ UNCHANGED <<heap, fn, array, data, keyProp, valueProps, map, acc, calls, error>>

\* one entry: values.map((value) => ({ ... }))
MultiMapToArray_Iterate ==
    /\ pc = "reverse" /\ fn = "multiMapToArray" /\ idx < Len(DataEntries(data))
    /\ LET entry == DataEntries(data)[idx + 1]
           n == Len(entry.v)
       IN IF MultiReadThrows(valueProps, entry.v)
          THEN /\ pc' = "thrown" /\ error' = "TypeError"
               /\ UNCHANGED <<heap, out, idx>>
          ELSE /\ heap' = heap \o [j \in 1..n |->
                              MultiMapToArrayRecord(heap, keyProp.name, entry.k,
                                                    valueProps, entry.v[j])]
               /\ out' = FlatAppend(out, [j \in 1..n |-> Ref(Len(heap) + j)])
               /\ idx' = idx + 1
               /\ UNCHANGED <<pc, error>>
    /\ UNCHANGED <<fn, array, data, keyProp, valueProps, map, acc, calls>>

MultiMapToArray_Return ==
    /\ pc = "reverse" /\ fn = "multiMapToArray" /\ idx = Len(DataEntries(data))
    /\ pc' = "returned"
    /\ UNCHANGED <<heap, fn, array, data, keyProp, valueProps, idx, map, acc, out, calls, error>>

MultiMapToArrayT_Enter ==
    /\ pc = "called" /\ fn = "transformers/multiMapToArray"
    /\ pc' = "reverse"
    /\ idx' = 0
    /\ out' = <<>>
    /\ UNCHANGED <<heap, fn, array, data, keyProp, valueProps, map, acc, calls, error>>

MultiMapToArrayT_Iterate ==
    /\ pc = "reverse" /\ fn = "transformers/multiMapToArray"
    /\ idx < Len(DataEntries(data))
    /\ LET entry == DataEntries(data)[idx + 1]
           n == Len(entry.v)
       IN IF MultiReadThrows(valueProps, entry.v)
          THEN /\ pc' = "thrown" /\ error' = "TypeError"
               /\ UNCHANGED <<heap, out, idx>>
          ELSE /\ heap' = heap \o [j \in 1..n |->
                              MultiMapToArrayRecordT(heap, keyProp.name, entry.k,
                                                     valueProps, entry.v[j])]
               /\ out' = FlatAppend(out, [j \in 1..n |-> Ref(Len(heap) + j)])
               /\ idx' = idx + 1
               /\ UNCHANGED <<pc, error>>
    /\ UNCHANGED <<fn, array, data, keyProp, valueProps, map, acc, calls>>

MultiMapToArrayT_Return ==
    /\ pc = "reverse" /\ fn = "transformers/multiMapToArray"
    /\ idx = Len(DataEntries(data))
    /\ pc' = "returned"
    /\ UNCHANGED <<heap, fn, array, data, keyProp, valueProps, idx, map, acc, out, calls, error>>

NextMultiReverse ==
    \/ MultiMapToArray_Enter
    \/ MultiMapToArray_Iterate
    \/ MultiMapToArray_Return
    \/ MultiMapToArrayT_Enter
    \/ MultiMapToArrayT_Iterate
    \/ MultiMapToArrayT_Return

----------------------------------------------------------------------------
(* The round trip mapToArray(arrayToMap(seq, k), k)                        *)

ThenMapToArray ==
    /\ pc = "returned" /\ fn = "arrayToMap"
    /\ fn' \in {"mapToArray", "transformers/mapToArray"}
    /\ data' = MapData(map)
    /\ pc' = "called"
    /\ idx' = 0
    /\ UNCHANGED <<heap, array, keyProp, valueProps, map, acc, out, calls, error>>

InitRoundTrip ==
    InitWith({"arrayToMap"}, Arrays, {Prop("id"), Prop("name"), Prop("age")}, {Absent})

NextRoundTrip ==
    \/ ArrayToMap_Enter
    \/ ArrayToMap_Iterate
    \/ ArrayToMap_Return
    \/ ThenMapToArray
    \/ NextReverse

SpecRoundTrip == InitRoundTrip /\ [][NextRoundTrip]_vars

----------------------------------------------------------------------------
(* The reverse projections called on containers given directly             *)

\* no array: the call is a reverse projection
NoArray == [kind |-> "none", items |-> <<>>]

\* the sequences over S of length at most n that repeat no element
DistinctSeqs(S, n) ==
    { q \in SeqsUpTo(S, n) : \A i, j \in 1..Len(q) : q[i] = q[j] => i = j }

\* new Map([[k1, v1], [k2, v2], ...]): at most MaxEntries entries, keys from
\* K (no key twice), values from V
MapsOver(K, V) ==
    UNION { { [i \in 1..Len(ks) |-> [k |-> ks[i], v |-> vs[i]]] :
                vs \in [1..Len(ks) -> V] } :
            ks \in DistinctSeqs(K, MaxEntries) }

RECURSIVE RecordOf(_)
\* the object literal { [k1]: v1, [k2]: v2, ... }
RecordOf(m) ==
    IF m = <<>> THEN EmptyObject
    ELSE DefineOwn(RecordOf(SubSeq(m, 1, Len(m) - 1)),
                   ToPropertyKey(m[Len(m)].k), m[Len(m)].v)

\* the Maps and the records with the entries of these Maps
Containers(K, V) ==
    {MapData(m) : m \in MapsOver(K, V)}
        \cup {RecordData(RecordOf(m)) : m \in MapsOver(K, V)}

\* the keys of the containers: numbers and a string; a record holds them in
\* string form, the integer-like ones first
ContainerKeys == {Num(2), Num(1), Str("a")}

\* values of the containers given to the two-argument mapToArray: scalars
\* and records (one with the field id, one with an integer-like field)
ScalarOrRecordValues == {Str("x"), Num(7), Bool(TRUE), Ref(1), Ref(4)}

\* values of the containers given to mapToArray of transformers/map.ts,
\* whose type admits objects only
RecordValues == {Ref(1), Ref(2), Ref(4)}

\* the key field names: one that the records have, and the name of the field
\* a scalar is placed under
KeyFieldNames == {Prop("id"), Prop("value")}

ReverseValueSelectors ==
    {Absent, Prop("name"), List(<<"age", "name">>), List(<<"id", "name">>)}

InitReverseWith(fns, datas, kps, vps) ==
    /\ heap = Pool
    /\ fn \in fns
    /\ array = NoArray
    /\ data \in datas
    /\ keyProp \in kps
    /\ valueProps \in vps
    /\ pc = "called"
    /\ idx = 0
    /\ map = <<>>
    /\ acc = EmptyObject
    /\ out = <<>>
    /\ calls = <<>>
    /\ error = "none"

InitReverse ==
    \/ InitReverseWith({"mapToArray"}, Containers(ContainerKeys, ScalarOrRecordValues),
                       KeyFieldNames, {Absent})
    \/ InitReverseWith({"transformers/mapToArray"}, Containers(ContainerKeys, RecordValues),
                       KeyFieldNames, ReverseValueSelectors)

SpecReverse == InitReverse /\ [][NextReverse]_vars

\* the values of the multi-valued containers: a record and a scalar
MultiValues == {Ref(1), Num(7)}

\* the sequences of values under one key (possibly none)
ValueSeqs == SeqsUpTo(MultiValues, MaxValues)

\* the keys of the multi-valued containers: a string and a number
MultiContainerKeys == {Str("a"), Num(1)}

MultiReverseSelectors == {Prop("name"), List(<<"age", "name">>)}

InitMultiReverse ==
    \/ InitReverseWith({"multiMapToArray"}, Containers(MultiContainerKeys, ValueSeqs),
                       {Prop("id")}, MultiReverseSelectors)
    \/ InitReverseWith({"transformers/multiMapToArray"},
                       Containers(MultiContainerKeys, ValueSeqs),
                       {Prop("id")}, MultiReverseSelectors \cup {Absent})

SpecMultiReverse == InitMultiReverse /\ [][NextMultiReverse]_vars

\* the reverse projections, single-valued and multi-valued
InitReverseAll == InitReverse \/ InitMultiReverse

NextReverseAll == NextReverse \/ NextMultiReverse

SpecReverseAll == InitReverseAll /\ [][NextReverseAll]_vars

----------------------------------------------------------------------------
(* The four builders called on records that lack the key field or a        *)
(* selected field                                                          *)

\* arrays of a complete record, a record without name and a record with
\* neither id nor name
SparseArrays == ArraysOver({1, 4, 6})

InitMissing ==
    InitWith({"arrayToMap", "arrayToRecord", "arrayToMultiMap", "arrayToMultiRecord"},
             SparseArrays, FieldSelectors, FieldValueSelectors)

SpecMissing == InitMissing /\ [][Next]_vars

----------------------------------------------------------------------------
(* Calls of the six functions: the four builders and the reverse           *)
(* projections                                                             *)

InitCalls == InitMissing \/ InitReverseAll

NextCalls == Next \/ NextReverseAll

SpecCalls == InitCalls /\ [][NextCalls]_vars

----------------------------------------------------------------------------
(* The multi-valued builders called with each selector shape arrayToMap    *)
(* accepts: the types of transformers/array.ts exclude a function, a       *)
(* JavaScript caller is not held to them                                   *)

InitDispatch ==
    InitWith({"arrayToMultiMap", "arrayToMultiRecord"}, Arrays,
             FieldSelectors, ValueSelectors)

SpecDispatch == InitDispatch /\ [][NextMulti]_vars

----------------------------------------------------------------------------
(* The single-valued builders on records whose key is a name that a plain   *)
(* object inherits or the name of the prototype accessor                    *)

InheritedKeyArrays == ArraysOver({1, 4, 5, 7})

PlainValueSelectors == {Absent, Prop("name"), List(<<"name", "age">>)}

InitInheritedKeys ==
    InitWith({"arrayToMap", "arrayToRecord"}, InheritedKeyArrays,
             KeySelectors, PlainValueSelectors)

SpecInheritedKeys == InitInheritedKeys /\ [][NextSingle]_vars

----------------------------------------------------------------------------
(* arrayToMap of src/unnamed/part_001: the copy that does not validate its  *)
(* first argument                                                           *)

\* for (const item of array): strings, sets and arrays are iterable,
\* undefined and null are not
IsIterable(a) == a.kind \in {"array", "string", "set"}

ArrayToMap001_Enter ==
    /\ pc = "called" /\ fn = "part_001/arrayToMap"
    /\ IF ~IsIterable(array)
       THEN pc' = "thrown" /\ error' = "TypeError" /\ map' = map
       ELSE pc' = "loop" /\ error' = error /\ map' = <<>>
    /\ UNCHANGED <<heap, fn, array, data, keyProp, valueProps, idx, acc, out, calls>>

ArrayToMap001_Iterate ==
    /\ pc = "loop" /\ fn = "part_001/arrayToMap" /\ idx < Len(array.items)
    /\ LET item == array.items[idx + 1]
           k == GetKey(heap, keyProp, item)
           v == GetValue(k.heap, valueProps, item)
       IN IF k.thrown
          THEN /\ pc' = "thrown" /\ error' = k.error
               /\ calls' = calls \o KeyCall(keyProp, idx + 1)
               /\ UNCHANGED <<heap, idx, map>>
          ELSE IF v.thrown
          THEN /\ pc' = "thrown" /\ error' = v.error
               /\ calls' = calls \o KeyCall(keyProp, idx + 1) \o ValueCall(valueProps, idx + 1)
               /\ heap' = k.heap
               /\ UNCHANGED <<idx, map>>
          ELSE /\ map' = MapSet(map, k.v, v.v)
               /\ heap' = v.heap
               /\ idx' = idx + 1
               /\ calls' = calls \o KeyCall(keyProp, idx + 1) \o ValueCall(valueProps, idx + 1)
               /\ UNCHANGED <<pc, error>>
    /\ UNCHANGED <<fn, array, data, keyProp, valueProps, acc, out>>

ArrayToMap001_Return ==
    /\ pc = "loop" /\ fn = "part_001/arrayToMap" /\ idx = Len(array.items)
    /\ pc' = "returned"
    /\ UNCHANGED <<heap, fn, array, data, keyProp, valueProps, idx, map, acc, out, calls, error>>

----------------------------------------------------------------------------
(* arrayToMap of src/src/transformers/array.ts:                             *)
(* new Map(array.map((item) => [key, value]))                               *)

\* only an array has the method map
HasMapMethod(a) == a.kind = "array"

RECURSIVE NewMap(_)
\* new Map(pairs): one set per pair, in the order of the pairs
NewMap(pairs) ==
    IF pairs = <<>> THEN <<>>
    ELSE MapSet(NewMap(SubSeq(pairs, 1, Len(pairs) - 1)),
                pairs[Len(pairs)].k, pairs[Len(pairs)].v)

ArrayToMapT_Enter ==
    /\ pc = "called" /\ fn = "transformers/arrayToMap"
    /\ IF ~HasMapMethod(array)
       THEN pc' = "thrown" /\ error' = "TypeError" /\ out' = out
       ELSE pc' = "loop" /\ error' = error /\ out' = <<>>
    /\ UNCHANGED <<heap, fn, array, data, keyProp, valueProps, idx, map, acc, calls>>

\* the callback of array.map, which produces the pair of one item
ArrayToMapT_Iterate ==
    /\ pc = "loop" /\ fn = "transformers/arrayToMap" /\ idx < Len(array.items)
    /\ LET item == array.items[idx + 1]
           key == Get(heap, item, SelectorKey(keyProp))
           v == GetValueT(heap, valueProps, item)
       IN /\ out' = Append(out, [k |-> key, v |-> v.v])
          /\ heap' = v.heap
          /\ idx' = idx + 1
    /\ UNCHANGED <<fn, array, data, keyProp, valueProps, pc, map, acc, calls, error>>

\* the Map is built from the pairs and returned
ArrayToMapT_Return ==
    /\ pc = "loop" /\ fn = "transformers/arrayToMap" /\ idx = Len(array.items)
    /\ map' = NewMap(out)
    /\ pc' = "returned"
    /\ UNCHANGED <<heap, fn, array, data, keyProp, valueProps, idx, acc, out, calls, error>>

----------------------------------------------------------------------------
(* The three copies of arrayToMap called with the same arguments            *)

ArrayToMaps == {"arrayToMap", "part_001/arrayToMap", "transformers/arrayToMap"}

\* value selectors of the shapes all three copies accept
SharedValueSelectors ==
    {Absent, Prop("name"), List(<<"name", "age">>), List(<<"__proto__", "name">>)}

InitArrayToMaps ==
    InitWith(ArrayToMaps, Arrays \cup NonArrays, FieldSelectors, SharedValueSelectors)

NextArrayToMaps ==
    \/ ArrayToMap_Enter
    \/ ArrayToMap_Iterate
    \/ ArrayToMap_Return
    \/ ArrayToMap001_Enter
    \/ ArrayToMap001_Iterate
    \/ ArrayToMap001_Return
    \/ ArrayToMapT_Enter
    \/ ArrayToMapT_Iterate
    \/ ArrayToMapT_Return

SpecArrayToMaps == InitArrayToMaps /\ [][NextArrayToMaps]_vars

----------------------------------------------------------------------------
(* The round trip multiMapToArray(arrayToMultiMap(seq, k), k) with the      *)
(* functions of src/src/transformers                                        *)

ThenMultiMapToArray ==
    /\ pc = "returned" /\ fn = "arrayToMultiMap"
    /\ fn' = "transformers/multiMapToArray"
    /\ data' = MapData(map)
    /\ pc' = "called"
    /\ idx' = 0
    /\ UNCHANGED <<heap, array, keyProp, valueProps, map, acc, out, calls, error>>

InitMultiRoundTrip ==
    InitWith({"arrayToMultiMap"}, Arrays, {Prop("id"), Prop("name"), Prop("age")}, {Absent})

NextMultiRoundTrip ==
    \/ ArrayToMultiMap_Enter
    \/ ArrayToMultiMap_Iterate
    \/ ArrayToMultiMap_Return
    \/ ThenMultiMapToArray
    \/ MultiMapToArrayT_Enter
    \/ MultiMapToArrayT_Iterate
    \/ MultiMapToArrayT_Return

SpecMultiRoundTrip == InitMultiRoundTrip /\ [][NextMultiRoundTrip]_vars

----------------------------------------------------------------------------
(* Properties *)

Single == {"arrayToMap", "arrayToRecord"}
Multi == {"arrayToMultiMap", "arrayToMultiRecord"}

\* the call has produced (part of) its container
Building == pc \in {"loop", "returned"}

Items == array.items

\* the entries built so far, as a sequence of [k, v]: of the Map, or the
\* own properties of the record in enumeration order
Entries == IF fn \in {"arrayToMap", "arrayToMultiMap"} THEN map ELSE acc.props

\* the selector allocates one new object per record
Allocates(vp) == vp.kind = "list" \/ (vp.kind = "fn" /\ vp.name = "nameAgeObj")

\* the key the j-th record resolves to, in the form the container holds it:
\* the value itself in a Map, its string form in a record
ResolvedKey(j) ==
    LET k == GetKey(heap, keyProp, Items[j]).v
    IN IF fn = "arrayToMap" THEN k ELSE ToPropertyKey(k)

\* v is the value the call resolved from the j-th record: the outcome of the
\* selector on that record, and, when the selector builds an object, the
\* object built at the j-th iteration
IsValueOf(v, j) ==
    LET r == GetValue(Pool, valueProps, Items[j])
    IN IF Allocates(valueProps)
       THEN v = Ref(Len(Pool) + j) /\ heap[v.n] = r.heap[r.v.n]
       ELSE v = r.v

\* C1: last writer wins. In arrayToMap and arrayToRecord, after any number
\* of records has been processed, every key of the container is the resolved
\* key of some processed record, the value under it is the value resolved
\* from the LAST processed record with that key, every processed record's key
\* is present, and no key occurs twice.
C1_LastWriterWins ==
    (Building /\ fn \in Single) =>
        /\ \A e \in 1..Len(Entries) :
              \E j \in 1..idx :
                  /\ ResolvedKey(j) = Entries[e].k
                  /\ \A j2 \in (j + 1)..idx : ResolvedKey(j2) # Entries[e].k
                  /\ IsValueOf(Entries[e].v, j)
        /\ \A j \in 1..idx : \E e \in 1..Len(Entries) : Entries[e].k = ResolvedKey(j)
        /\ \A e1, e2 \in 1..Len(Entries) : Entries[e1].k = Entries[e2].k => e1 = e2

\* a call has returned a container in which a later record replaced the
\* different value of an earlier record with the same key
C1_Witness ==
    /\ pc = "returned" /\ fn \in Single
    /\ \E i, j \in 1..Len(Items) :
          /\ i < j
          /\ Items[i] # Items[j]
          /\ ResolvedKey(i) = ResolvedKey(j)
          /\ \A e \in 1..Len(Entries) :
                Entries[e].k = ResolvedKey(j) =>
                    IsValueOf(Entries[e].v, j) /\ ~IsValueOf(Entries[e].v, i)

\* the key the j-th record resolves to in a multi-valued builder, in the
\* form the container holds it
MultiKey(j) ==
    LET k == Get(heap, Items[j], SelectorKey(keyProp))
    IN IF fn = "arrayToMultiMap" THEN k ELSE ToPropertyKey(k)

\* the value a multi-valued builder projects from the j-th record: the
\* sub-record built at the j-th iteration, or the record or its field
Projected(j) ==
    IF valueProps.kind = "list" THEN Ref(Len(Pool) + j)
    ELSE GetValueT(Pool, valueProps, Items[j]).v

RECURSIVE Group(_, _)
\* the projected values of the records among the first n whose key is k,
\* in input order
Group(k, n) ==
    IF n = 0 THEN <<>>
    ELSE IF MultiKey(n) = k THEN Append(Group(k, n - 1), Projected(n))
         ELSE Group(k, n - 1)

\* C2: stable grouping. In arrayToMultiMap and arrayToMultiRecord, after any
\* number of records has been processed, the sequence under each key k is the
\* sequence of the values projected from exactly the processed records whose
\* key is k, in input order; every processed record's key is present; a
\* projected sub-record holds the listed fields of its record.
C2_StableGrouping ==
    (Building /\ fn \in Multi) =>
        /\ \A e \in 1..Len(Entries) : Entries[e].v = Group(Entries[e].k, idx)
        /\ \A j \in 1..idx : \E e \in 1..Len(Entries) : Entries[e].k = MultiKey(j)
        /\ \A j \in 1..idx :
              valueProps.kind = "list" =>
                  heap[Len(Pool) + j] = FromEntries(Pool, valueProps.names, Items[j])

\* a multi-valued builder returned a container with several keys in which
\* one key groups the different values of two records
C2_Witness ==
    /\ pc = "returned" /\ fn \in Multi
    /\ Len(Entries) >= 2
    /\ \E e \in 1..Len(Entries) :
          Len(Entries[e].v) >= 2 /\ Entries[e].v[1] # Entries[e].v[2]

RECURSIVE SumLens(_)
\* total number of values in the sequences of a multi-valued container
SumLens(m) == IF m = <<>> THEN 0 ELSE Len(m[1].v) + SumLens(Tail(m))

\* C3: no drop. In arrayToMultiMap, after i records have been processed the
\* lengths of the sequences of the Map sum to i and no sequence is empty; in
\* the returned Map they sum to the length of the input.
C3_NoDrop ==
    (Building /\ fn = "arrayToMultiMap") =>
        /\ SumLens(map) = idx
        /\ \A e \in 1..Len(map) : Len(map[e].v) >= 1
        /\ pc = "returned" => SumLens(map) = Len(Items)

\* arrayToMultiMap returned for three records, two of them sharing a key
C3_Witness ==
    /\ pc = "returned" /\ fn = "arrayToMultiMap"
    /\ Len(Items) = 3 /\ Len(map) = 2 /\ SumLens(map) = 3

\* C4: empty input. A builder called with an empty array never throws,
\* invokes no selector function, allocates nothing, and the container it
\* builds and returns is empty (a Map without entries, an object without
\* own keys).
C4_EmptyInput ==
    (fn \in Single \cup Multi /\ array = ArrayOf(<<>>)) =>
        /\ pc \in {"called", "loop", "returned"}
        /\ error = "none"
        /\ calls = <<>>
        /\ heap = Pool
        /\ map = <<>>
        /\ acc.props = <<>>

\* a builder given function selectors returned for the empty array
C4_Witness ==
    /\ pc = "returned" /\ array = ArrayOf(<<>>)
    /\ keyProp.kind = "fn" /\ valueProps.kind = "fn"
    /\ map = <<>> /\ calls = <<>>

\* the value the j-th input record holds in its own field name, undefined
\* when it has no such field
Field(j, name) ==
    LET o == Pool[Items[j].n]
    IN IF \E i \in 1..Len(o.props) : o.props[i].k = name
       THEN o.props[CHOOSE i \in 1..Len(o.props) : o.props[i].k = name].v
       ELSE Undef

\* the last processed record whose key is that of the e-th entry
LastOf(e) ==
    CHOOSE j \in 1..idx :
        /\ ResolvedKey(j) = Entries[e].k
        /\ \A j2 \in (j + 1)..idx : ResolvedKey(j2) # Entries[e].k

RECURSIVE FirstOccurrences(_)
\* a list of names without its repetitions, each name at its first place
FirstOccurrences(q) ==
    IF q = <<>> THEN <<>>
    ELSE LET front == FirstOccurrences(SubSeq(q, 1, Len(q) - 1))
             last == q[Len(q)]
         IN IF \E i \in 1..Len(front) : front[i] = last THEN front
            ELSE Append(front, last)

RECURSIVE Ascending(_)
\* the integer-like names of a set, in ascending numeric order
Ascending(S) ==
    IF S = {} THEN <<>>
    ELSE LET least == CHOOSE x \in S : \A y \in S : IndexOf(x) <= IndexOf(y)
         IN <<least>> \o Ascending(S \ {least})

\* the order in which an object enumerates names created in the order q:
\* the integer-like names ascending, then the others as in q
EnumerationOrder(q) ==
    Ascending({q[i] : i \in {i \in 1..Len(q) : IsIndexName(q[i])}})
        \o SelectSeq(q, LAMBDA x : ~IsIndexName(x))

\* the stored value of the e-th entry is a sub-record built by the call, and
\* each of its fields holds the value its record has for that field
IsSubRecord(e) ==
    LET v == Entries[e].v
    IN /\ v.t = "object" /\ v.n > Len(Pool) /\ v.n <= Len(heap)
       /\ \A i \in 1..Len(heap[v.n].props) :
             heap[v.n].props[i].v = Field(LastOf(e), heap[v.n].props[i].k)

C7_ValueResolution ==
    (Building /\ fn \in Single) =>
        \A e \in 1..Len(Entries) :
            LET j == LastOf(e)
                v == Entries[e].v
                r == ApplyFn(Pool, valueProps.name, Items[j])
            IN CASE valueProps.kind = "undefined" -> v = Items[j]
                 [] valueProps.kind = "prop" -> v = Field(j, valueProps.name)
                 [] valueProps.kind = "list" ->
                        /\ IsSubRecord(e)
                        /\ {heap[v.n].props[i].k : i \in 1..Len(heap[v.n].props)}
                              = {valueProps.names[i] : i \in 1..Len(valueProps.names)}
                 [] valueProps.kind = "fn" ->
                        IF r.v.t = "object"
                        THEN /\ v.t = "object" /\ v.n > Len(Pool)
                             /\ heap[v.n] = r.heap[r.v.n]
                        ELSE v = r.v

\* arrayToRecord returned values built by a function selector
C7_Witness ==
    /\ pc = "returned" /\ fn = "arrayToRecord"
    /\ valueProps = Fn("nameAgeObj")
    /\ Len(acc.props) >= 2
    /\ \A e \in 1..Len(acc.props) : Keys(heap[acc.props[e].v.n]) = <<"nameAge">>

\* the key the claim expects for the j-th record, in the form the container
\* holds it
ExpectedKey(j) ==
    LET k == IF keyProp.kind = "prop" THEN Field(j, keyProp.name)
             ELSE ApplyFn(Pool, keyProp.name, Items[j]).v
    IN IF fn = "arrayToMap" THEN k ELSE ToPropertyKey(k)

\* C8: key resolution. In arrayToMap and arrayToRecord the keys of the
\* container are exactly the keys of the processed records: the record's
\* value of the field when the key selector is a field name, the function's
\* result for the record when it is a function (a record holds each key in
\* its string form).
C8_KeyResolution ==
    (Building /\ fn \in Single) =>
        {Entries[e].k : e \in 1..Len(Entries)} = {ExpectedKey(j) : j \in 1..idx}

\* arrayToMap returned a Map keyed by the upper-cased names of its records
C8_Witness ==
    /\ pc = "returned" /\ fn = "arrayToMap"
    /\ keyProp = Fn("upperName")
    /\ MapKeys(map) = <<Str("ALICE"), Str("BOB")>>

\* C9: input validation. arrayToMap and arrayToRecord of src/src/array.ts,
\* given a first argument that is not an array, throw a TypeError as their
\* first step; no record is processed, no selector function is invoked, no
\* container is built or returned.
C9_InputValidation ==
    /\ []((fn \in Single /\ array.kind # "array") =>
            /\ pc \in {"called", "thrown"}
            /\ pc = "thrown" => error = "TypeError"
            /\ idx = 0 /\ calls = <<>> /\ heap = Pool
            /\ map = <<>> /\ acc.props = <<>>)
    /\ [][(fn \in Single /\ array.kind # "array" /\ pc = "called") =>
            (pc' = "thrown" /\ error' = "TypeError")]_vars

\* arrayToRecord threw for a set given as its first argument
C9_Witness ==
    /\ pc = "thrown" /\ fn = "arrayToRecord"
    /\ array.kind = "set" /\ error = "TypeError"

\* the set of (name, value) pairs of an object: its fields and values
PropsSet(o) == {<<o.props[i].k, o.props[i].v>> : i \in 1..Len(o.props)}

\* every record of the input has the field k, with pairwise distinct values
UniquelyKeyed(k) ==
    /\ \A i \in 1..Len(Items) : HasOwn(Pool[Items[i].n], k)
    /\ \A i, j \in 1..Len(Items) : Field(i, k) = Field(j, k) => i = j

ResolvedKeys == {GetKey(Pool, keyProp, Items[j]).v : j \in 1..Len(Items)}

\* the Map and the record hold the same keys (a record holds the string form
\* of a key) in the same order, and values with the same content
SameView ==
    /\ Len(map) = Len(acc.props)
    /\ \A i \in 1..Len(map) :
          /\ ToPropertyKey(map[i].k) = acc.props[i].k
          /\ IF Allocates(valueProps)
             THEN heap[map[i].v.n] = heap[acc.props[i].v.n]
             ELSE map[i].v = acc.props[i].v

\* arrayToRecord has returned after arrayToMap, for the same arguments
BothReturned == pc = "returned" /\ fn = "arrayToRecord"

\* C10 as claimed: for an input whose resolved keys are strings or numbers,
\* arrayToMap and arrayToRecord return the same keys, the same value under
\* each key and the same iteration order of keys.
C10_ViewsAgree ==
    (BothReturned /\ \A k \in ResolvedKeys : k.t \in {"string", "number"})
        => SameView

\* C10 (amended): for an input whose resolved keys are strings that are not
\* integer-like (not the decimal form of an array index), arrayToMap and
\* arrayToRecord return the same keys, the same value under each key and the
\* same iteration order of keys.
C10_ViewsAgreeOnNames ==
    (BothReturned /\ \A k \in ResolvedKeys : k.t = "string" /\ ~IsIndexName(k.s))
        => SameView

\* both builders returned for three records keyed by name, two of them
\* sharing a name
C10_Witness ==
    /\ BothReturned
    /\ keyProp = Prop("name")
    /\ \A k \in ResolvedKeys : k.t = "string" /\ ~IsIndexName(k.s)
    /\ Len(Items) = 3 /\ Len(map) = 2 /\ Len(acc.props) = 2
    /\ Items[1] # Items[3] /\ Field(1, "name") = Field(3, "name")

\* the position of the j-th record's value inside the sequence of its key
GroupIndex(j) == Cardinality({i \in 1..j : MultiKey(i) = MultiKey(j)})

\* the value a multi-valued builder stored for the j-th record
StoredFor(j) ==
    LET e == CHOOSE e \in 1..Len(Entries) : Entries[e].k = MultiKey(j)
    IN Entries[e].v[GroupIndex(j)]

\* the stored value s is what the single-valued builders resolve (outcome r)
SameResolution(s, r) ==
    IF r.v.t = "object" /\ r.v.n > Len(Pool)
    THEN s.t = "object" /\ s.n > Len(Pool) /\ heap[s.n] = r.heap[r.v.n]
    ELSE s = r.v

\* C11 as claimed: for every record and every value selector shape (absent,
\* field name, list of field names, function), arrayToMultiMap and
\* arrayToMultiRecord store the value that getValue of arrayToMap and
\* arrayToRecord resolves for that record (the same value, or for a value
\* built by the call an object with the same fields and values).
C11_SameDispatch ==
    (Building /\ fn \in Multi) =>
        \A j \in 1..idx :
            LET r == GetValue(Pool, valueProps, Items[j])
            IN ~r.thrown => SameResolution(StoredFor(j), r)

\* C11 for the three selector shapes the multi-valued builders dispatch on:
\* absent, field name and list of field names resolve as in arrayToMap
C11_SameDispatchNoFn ==
    (Building /\ fn \in Multi /\ valueProps.kind # "fn") =>
        \A j \in 1..idx :
            SameResolution(StoredFor(j), GetValue(Pool, valueProps, Items[j]))

\* a multi-valued builder given a function as value selector returned with
\* undefined stored for a record the function maps to a string
C11_Witness ==
    /\ pc = "returned" /\ fn \in Multi
    /\ valueProps = Fn("upperName")
    /\ Len(Items) >= 1
    /\ StoredFor(1) = Undef
    /\ GetValue(Pool, valueProps, Items[1]).v = Str("ALICE")

\* a reverse projection has produced (part of) its array
Reversing == pc \in {"reverse", "returned"}

\* the i-th entry of the container, and the record produced from it
EntryOf(i) == DataEntries(data)[i]
Produced(i) == heap[out[i].n]

\* typeof value is 'string', 'number' or 'boolean'
IsScalar(v) == v.t \in {"string", "number", "boolean"}

\* the record o has exactly the fields and values of the set ps, once each
HasExactly(o, ps) == PropsSet(o) = ps /\ Len(o.props) = Cardinality(ps)

\* C12 as claimed: for the two-argument mapToArray, for every entry whose
\* value is a scalar and for every key field name, the produced record has
\* exactly two fields: the key field name holding the entry's key, and the
\* field value holding the scalar.
C12_ScalarTwoFields ==
    (Reversing /\ fn = "mapToArray") =>
        \A i \in 1..Len(out) :
            IsScalar(EntryOf(i).v) =>
                /\ Len(Produced(i).props) = 2
                /\ PropsSet(Produced(i))
                      = {<<keyProp.name, EntryOf(i).k>>, <<"value", EntryOf(i).v>>}

\* C12 (amended): for the two-argument mapToArray, for every entry whose
\* value is a scalar and for every key field name other than value, the
\* produced record has exactly two fields: the key field name holding the
\* entry's key, and the field value holding the scalar; when the key field
\* name is value, the record has the single field value, holding the scalar.
C12_ScalarUnderValue ==
    (Reversing /\ fn = "mapToArray") =>
        \A i \in 1..Len(out) :
            IsScalar(EntryOf(i).v) =>
                IF keyProp.name # "value"
                THEN HasExactly(Produced(i), {<<keyProp.name, EntryOf(i).k>>,
                                              <<"value", EntryOf(i).v>>})
                ELSE HasExactly(Produced(i), {<<"value", EntryOf(i).v>>})

\* the two-argument mapToArray returned the records of a record container
\* with two scalar values, one of them a boolean
C12_Witness ==
    /\ pc = "returned" /\ fn = "mapToArray"
    /\ data.kind = "record" /\ keyProp = Prop("id")
    /\ Len(out) = 2
    /\ \A i \in 1..2 : IsScalar(EntryOf(i).v)
    /\ \E i \in 1..2 : EntryOf(i).v = Bool(TRUE)
    /\ \A i \in 1..2 : Keys(Produced(i)) = <<"id", "value">>

\* the fields and values of the object o, without the field named k
PropsWithout(o, k) == {p \in PropsSet(o) : p[1] # k}

\* C13: for the two-argument mapToArray, for every entry whose value is a
\* record, the produced record is a new object holding all fields of the
\* value other than the key field name with their values, plus the key field
\* name holding the entry's key (whether or not the value has a field of
\* that name); the value and every other object that existed before the
\* call are unchanged.
C13_CompositeMerge ==
    (Reversing /\ fn = "mapToArray") =>
        /\ SubSeq(heap, 1, Len(Pool)) = Pool
        /\ \A i \in 1..Len(out) :
              EntryOf(i).v.t = "object" =>
                  /\ out[i].n > Len(Pool)
                  /\ out[i] # EntryOf(i).v
                  /\ HasExactly(Produced(i),
                                PropsWithout(Pool[EntryOf(i).v.n], keyProp.name)
                                    \cup {<<keyProp.name, EntryOf(i).k>>})

\* the two-argument mapToArray returned, for a record that has the field id
\* and is stored under a key different from its id, a record whose id is
\* the key
C13_Witness ==
    /\ pc = "returned" /\ fn = "mapToArray" /\ keyProp = Prop("id")
    /\ \E i \in 1..Len(out) :
          /\ EntryOf(i).v = Ref(1)
          /\ EntryOf(i).k = Num(2)
          /\ OwnGet(Produced(i), "id") = Num(2)
          /\ OwnGet(Pool[1], "id") = Num(1)
          /\ Len(Produced(i).props) = 3

\* the fields the value selector selects from the value of the i-th entry
SelectedFields(i) ==
    LET val == Pool[EntryOf(i).v.n]
    IN CASE valueProps.kind = "undefined" -> PropsSet(val)
         [] valueProps.kind = "prop" ->
                {<<valueProps.name, ObjGet(Pool, val, valueProps.name)>>}
         [] OTHER ->
                {<<valueProps.names[j], ObjGet(Pool, val, valueProps.names[j])>> :
                    j \in 1..Len(valueProps.names)}

\* C14 as claimed: for mapToArray of src/src/transformers/map.ts, each
\* produced record's key field holds the key of the entry it was produced
\* from, and its other fields are exactly all fields of the value (selector
\* absent), the one selected field, or the listed fields.
C14_KeyAndSelection ==
    (Reversing /\ fn = "transformers/mapToArray") =>
        \A i \in 1..Len(out) :
            /\ HasOwn(Produced(i), keyProp.name)
            /\ OwnGet(Produced(i), keyProp.name) = EntryOf(i).k
            /\ PropsWithout(Produced(i), keyProp.name)
                  = {p \in SelectedFields(i) : p[1] # keyProp.name}

\* mapToArray of src/src/transformers/map.ts returned, for a record with id 1
\* stored under the key 2, a record whose key field id holds 1
C14_Witness ==
    /\ pc = "returned" /\ fn = "transformers/mapToArray"
    /\ keyProp = Prop("id") /\ valueProps = Absent
    /\ \E i \in 1..Len(out) :
          /\ EntryOf(i).k = Num(2)
          /\ EntryOf(i).v = Ref(1)
          /\ OwnGet(Produced(i), "id") = Num(1)

SingleReverse == {"mapToArray", "transformers/mapToArray"}
MultiReverse == {"multiMapToArray", "transformers/multiMapToArray"}

RECURSIVE FlatPairs(_)
\* the (key, value) pairs of a multi-valued container: entry by entry, and
\* inside an entry in the order of its sequence
FlatPairs(es) ==
    IF es = <<>> THEN <<>>
    ELSE LET last == es[Len(es)]
         IN FlatPairs(SubSeq(es, 1, Len(es) - 1))
                \o [j \in 1..Len(last.v) |-> [k |-> last.k, v |-> last.v[j]]]

\* the fields the claim expects beside the key field, for the value v
ExpectedFields(v) ==
    CASE valueProps.kind = "prop" -> {<<valueProps.name, v>>}
      [] valueProps.kind = "list" ->
            {<<valueProps.names[j], Get(Pool, v, valueProps.names[j])>> :
                j \in 1..Len(valueProps.names)}
      [] OTHER -> IF v.t = "object" THEN PropsSet(Pool[v.n]) ELSE {}

\* C15 as claimed: multiMapToArray produces, for each value of each key's
\* sequence, a record whose key field holds that key and whose other fields
\* are: the value itself under the selector's name (single field name), the
\* value's listed fields (list), all fields of the value (selector absent).
C15_MultiContent ==
    (Reversing /\ fn \in MultiReverse) =>
        LET fp == FlatPairs(SubSeq(DataEntries(data), 1, idx))
        IN /\ Len(out) = Len(fp)
           /\ \A i \in 1..Len(out) :
                 /\ HasOwn(Produced(i), keyProp.name)
                 /\ OwnGet(Produced(i), keyProp.name) = fp[i].k
                 /\ PropsWithout(Produced(i), keyProp.name)
                       = {p \in ExpectedFields(fp[i].v) : p[1] # keyProp.name}

\* multiMapToArray of src/src/transformers/map.ts, called without value
\* selector, returned for a record with id 1 in the sequence of the key 'a'
\* a record whose key field id holds 1
C15_Witness ==
    /\ pc = "returned" /\ fn = "transformers/multiMapToArray"
    /\ keyProp = Prop("id") /\ valueProps = Absent
    /\ Len(DataEntries(data)) >= 1
    /\ DataEntries(data)[1].k = Str("a")
    /\ DataEntries(data)[1].v = <<Ref(1)>>
    /\ OwnGet(Produced(1), "id") = Num(1)

\* the entries of the container in its iteration order: insertion order of
\* a Map, own enumeration order of a record (keys as strings)
ContainerEntries ==
    IF data.kind = "map" THEN data.entries
    ELSE [i \in 1..Len(data.obj.props) |->
            [k |-> Str(data.obj.props[i].k), v |-> data.obj.props[i].v]]

\* the record the called projection builds from the key k and the value v
BuiltFrom(k, v) ==
    CASE fn = "mapToArray" -> MapToArrayRecord(Pool, keyProp.name, k, v)
      [] fn = "transformers/mapToArray" ->
            MapToArrayRecordT(Pool, keyProp.name, k, valueProps, v)
      [] fn = "multiMapToArray" ->
            MultiMapToArrayRecord(Pool, keyProp.name, k, valueProps, v)
      [] OTHER -> MultiMapToArrayRecordT(Pool, keyProp.name, k, valueProps, v)

\* the (key, value) pairs the records come from, in the claimed order: up to
\* the n-th entry
SourcePairs(n) ==
    IF fn \in SingleReverse THEN SubSeq(ContainerEntries, 1, n)
    ELSE FlatPairs(SubSeq(ContainerEntries, 1, n))

\* C16: order and count. After n entries of the container have been
\* processed, mapToArray has produced n records, the i-th from the i-th entry
\* in the container's iteration order, and multiMapToArray as many records as
\* the first n sequences hold values, ordered by entry first and by position
\* inside the sequence second; every record is a new object; at return all
\* entries have been processed.
C16_OrderAndCount ==
    (Reversing /\ fn \in SingleReverse \cup MultiReverse) =>
        /\ Len(out) = Len(SourcePairs(idx))
        /\ fn \in SingleReverse => Len(out) = idx
        /\ fn \in MultiReverse => Len(out) = SumLens(SubSeq(ContainerEntries, 1, idx))
        /\ pc = "returned" => idx = Len(ContainerEntries)
        /\ \A i \in 1..Len(out) :
              /\ out[i] = Ref(Len(Pool) + i)
              /\ Produced(i) = BuiltFrom(SourcePairs(idx)[i].k, SourcePairs(idx)[i].v)

\* multiMapToArray returned three records for a record container whose keys
\* were written as a, 1 and are enumerated as 1, a: the sequence of 1 first
C16_Witness ==
    /\ pc = "returned" /\ fn \in MultiReverse
    /\ data.kind = "record"
    /\ Keys(data.obj) = <<"1", "a">>
    /\ Len(data.obj.props[1].v) = 2 /\ Len(data.obj.props[2].v) = 1
    /\ data.obj.props[1].v[1] # data.obj.props[1].v[2]
    /\ Len(out) = 3
    /\ OwnGet(Produced(1), "id") = Str("1")
    /\ OwnGet(Produced(3), "id") = Str("a")

\* the form in which the container of the called builder holds the key
\* undefined: the value in a Map, its string form in a record
UndefinedKey ==
    IF fn \in {"arrayToMap", "arrayToMultiMap"} THEN Undef ELSE "undefined"

\* the j-th processed record still has its value in the container: always
\* in a multi-valued builder, in a single-valued one when no later processed
\* record has its key
IsKept(j) == fn \in Multi \/ \A j2 \in (j + 1)..idx : ResolvedKey(j2) # ResolvedKey(j)

\* the value the container holds for the j-th record (when IsKept(j))
Kept(j) ==
    IF fn \in Multi THEN StoredFor(j)
    ELSE Entries[CHOOSE e \in 1..Len(Entries) : Entries[e].k = ResolvedKey(j)].v

C18_ThrowsOnMissingKey ==
    (/\ fn \in Single /\ array.kind = "array" /\ keyProp.kind = "prop"
     /\ \E j \in 1..Len(Items) : ~HasOwn(Pool[Items[j].n], keyProp.name)) =>
        pc # "returned"

\* arrayToMap returned a Map with the key undefined for an array in which a
\* record lacks the key field
C18_Witness ==
    /\ pc = "returned" /\ fn = "arrayToMap" /\ error = "none"
    /\ keyProp = Prop("name")
    /\ \E j \in 1..Len(Items) : ~HasOwn(Pool[Items[j].n], "name")
    /\ MapHas(map, Undef)

\* C19: inputs are never mutated. In every call of arrayToMap,
\* arrayToRecord, arrayToMultiMap, arrayToMultiRecord, mapToArray and
\* multiMapToArray, no step changes the input array (its length, its
\* elements, their order), the input container (its entries) or any object
\* that exists when the step is taken (the fields and values of the input
\* records and of the records inside the container); the records the call
\* started with are as they were in every state.
C19_InputsNotMutated ==
    /\ [](SubSeq(heap, 1, Len(Pool)) = Pool)
    /\ [][/\ array' = array
          /\ data' = data
          /\ Len(heap') >= Len(heap)
          /\ \A a \in 1..Len(heap) : heap'[a] = heap[a]]_vars

\* arrayToMultiRecord returned sub-records built for three records, and
\* the input records are as they were
C19_Witness ==
    /\ pc = "returned" /\ fn = "arrayToMultiRecord"
    /\ valueProps = List(<<"name", "age">>)
    /\ Len(Items) = 3
    /\ Len(heap) = Len(Pool) + 3
    /\ SubSeq(heap, 1, Len(Pool)) = Pool

\* C20: aliasing of stored values. In the four builders, a value stored
\* with the value selector absent is the input element itself (the same
\* object, not a copy); a value stored with a list of field names is an
\* object built by the call, different from the input element and from the
\* object stored for any other element of the input (also when the same
\* record occurs twice in the input).
C20_Aliasing ==
    (Building /\ fn \in Single \cup Multi) =>
        \A j \in 1..idx :
            IsKept(j) =>
                /\ valueProps.kind = "undefined" => Kept(j) = Items[j]
                /\ valueProps.kind = "list" =>
                      /\ Kept(j).t = "object"
                      /\ Kept(j).n > Len(Pool) /\ Kept(j).n <= Len(heap)
                      /\ Kept(j) # Items[j]
                      /\ \A j2 \in 1..idx :
                            (j2 # j /\ IsKept(j2)) => Kept(j2) # Kept(j)

\* arrayToMultiMap returned, for an input that holds the same record twice,
\* two different sub-records with the same fields and values
C20_Witness ==
    /\ pc = "returned" /\ fn = "arrayToMultiMap"
    /\ valueProps = List(<<"name", "age">>)
    /\ Len(Items) >= 2 /\ Items[1] = Items[2]
    /\ StoredFor(1) # StoredFor(2)
    /\ heap[StoredFor(1).n] = heap[StoredFor(2).n]

\* the keys of a sequence of entries, in its order
KeysOf(es) == [e \in 1..Len(es) |-> es[e].k]

\* the keys of the first n records, each at the place of its first occurrence
FirstSeen(n) == FirstOccurrences([j \in 1..n |-> MultiKey(j)])

Fails(j) ==
    LET k == GetKey(Pool, keyProp, Items[j])
    IN k.thrown \/ GetValue(k.heap, valueProps, Items[j]).thrown

\* the first record of the input on which a selector function fails
FirstFailing == CHOOSE j \in 1..Len(Items) : Fails(j) /\ \A j2 \in 1..(j - 1) : ~Fails(j2)

\* C22: no partial results. When a key or value function fails on the i-th
\* record during arrayToMap or arrayToRecord, the call never returns a
\* container; the step that reaches the i-th record ends the call with the
\* failure of the function; the call takes no step after the failure; and no
\* selector is ever applied to a record after the i-th.
C22_NoPartialResults ==
    /\ []((fn \in Single /\ array.kind = "array"
              /\ \E j \in 1..Len(Items) : Fails(j)) =>
            /\ pc # "returned"
            /\ idx < FirstFailing
            /\ \A c \in 1..Len(calls) : calls[c].i <= FirstFailing
            /\ pc = "thrown" => (error = "TypeError" /\ idx = FirstFailing - 1))
    /\ [][(fn \in Single /\ pc = "loop" /\ idx < Len(Items) /\ Fails(idx + 1)) =>
            (pc' = "thrown" /\ error' = "TypeError" /\ idx' = idx
                /\ map' = map /\ acc' = acc)]_vars
    /\ [][~(fn \in Single /\ pc = "thrown")]_vars

\* a selector function failed on the second of three records: the call ended
\* with the failure after one record was stored, with a record left unread
C22_Witness ==
    /\ pc = "thrown" /\ fn \in Single /\ error = "TypeError"
    /\ array.kind = "array" /\ Len(Items) = 3
    /\ idx = 1 /\ Len(Entries) = 1
    /\ calls # <<>> /\ calls[Len(calls)].i = 2

\* every record of the input has a string under the key field
StringKeys ==
    \A j \in 1..Len(Items) : Get(Pool, Items[j], SelectorKey(keyProp)).t = "string"

\* C23: arrayToMultiRecord keeps every record for every key. For an input
\* array whose key values are strings, among them names a plain object
\* inherits such as constructor, the call raises no failure, and each
\* processed record contributes exactly one entry to the sequence stored under
\* its key.
C23_KeepsEveryRecord ==
    (fn = "arrayToMultiRecord" /\ array.kind = "array" /\ StringKeys) =>
        /\ pc # "thrown" /\ error = "none"
        /\ Building =>
              /\ SumLens(Entries) = idx
              /\ \A j \in 1..idx :
                    \E e \in 1..Len(Entries) :
                        /\ Entries[e].k = MultiKey(j)
                        /\ Entries[e].v = Group(MultiKey(j), idx)

\* arrayToMultiRecord failed on a record whose key is the inherited name
\* constructor, in an array of several records with string keys
C23_Witness ==
    /\ pc = "thrown" /\ fn = "arrayToMultiRecord" /\ error = "TypeError"
    /\ StringKeys
    /\ Len(Items) >= 2
    /\ MultiKey(idx + 1) = "constructor"

RECURSIVE ExpectedCalls(_)
\* the invocations of the selector functions a single pass over the first n
\* records makes: for each record in input order, the key function and then
\* the value function
ExpectedCalls(n) ==
    IF n = 0 THEN <<>>
    ELSE ExpectedCalls(n - 1)
            \o (IF keyProp.kind = "fn" THEN <<[sel |-> "key", i |-> n]>> ELSE <<>>)
            \o (IF valueProps.kind = "fn" THEN <<[sel |-> "value", i |-> n]>> ELSE <<>>)

\* the number of invocations of the key (value) function logged so far
CountCalls(which) ==
    Cardinality({c \in 1..Len(calls) : calls[c].sel = which})

\* C24: single pass with one resolution per record. In arrayToMap and
\* arrayToRecord, after i records have been processed the selector functions
\* have been invoked once per processed record, in input order, the key
\* function before the value function of the same record and both before
\* those of the next record; a call that returns has processed all n records,
\* so the key function was invoked exactly n times and the value function
\* exactly n times.
C24_SinglePass ==
    (fn \in Single /\ Building) =>
        /\ calls = ExpectedCalls(idx)
        /\ keyProp.kind = "fn" => CountCalls("key") = idx
        /\ valueProps.kind = "fn" => CountCalls("value") = idx
        /\ pc = "returned" => idx = Len(Items)

\* a builder returned for three records with a key function and a value
\* function, each invoked three times
C24_Witness ==
    /\ pc = "returned" /\ fn \in Single
    /\ keyProp.kind = "fn" /\ valueProps.kind = "fn"
    /\ Len(Items) = 3
    /\ Len(calls) = 6
    /\ calls[1] = [sel |-> "key", i |-> 1] /\ calls[2] = [sel |-> "value", i |-> 1]

\* the entries es hold a sequence under the key k
HasKey(es, k) == \E e \in 1..Len(es) : es[e].k = k

\* the sequence the entries es hold under the key k
Under(es, k) == es[CHOOSE e \in 1..Len(es) : es[e].k = k].v

\* over the step, every key that is present stays present and the values of
\* its sequence stay, in their places, at the front of the sequence
KeysAndValuesKept ==
    \A e \in 1..Len(Entries) :
        /\ HasKey(Entries', Entries[e].k)
        /\ Len(Under(Entries', Entries[e].k)) >= Len(Entries[e].v)
        /\ SubSeq(Under(Entries', Entries[e].k), 1, Len(Entries[e].v)) = Entries[e].v

\* the step creates one new key with a one-element sequence, or lengthens
\* the sequence of one existing key by one, and leaves every other key with
\* its sequence
OneValueAdded ==
    \E e \in 1..Len(Entries') :
        /\ IF HasKey(Entries, Entries'[e].k)
           THEN /\ Len(Entries'[e].v) = Len(Under(Entries, Entries'[e].k)) + 1
                /\ Len(Entries') = Len(Entries)
           ELSE /\ Len(Entries'[e].v) = 1
                /\ Len(Entries') = Len(Entries) + 1
        /\ \A e2 \in 1..Len(Entries') :
              e2 # e => /\ HasKey(Entries, Entries'[e2].k)
                        /\ Entries'[e2].v = Under(Entries, Entries'[e2].k)

\* C25: append-only building. Every step of arrayToMultiMap and
\* arrayToMultiRecord that processes a record either creates one new key with
\* a one-element sequence or appends one value at the end of the sequence of
\* one existing key, and leaves every other key with its sequence; over any
\* step a key that is present stays present and the values of its sequence
\* are neither removed, replaced nor reordered.
C25_AppendOnly ==
    [][(fn \in Multi) =>
          (KeysAndValuesKept /\ (idx' = idx + 1 => OneValueAdded))]_vars

\* a multi-valued builder returned a container built by creating two keys
\* and appending to one of them
C25_Witness ==
    /\ pc = "returned" /\ fn \in Multi
    /\ Len(Items) = 3 /\ Len(Entries) = 2
    /\ \E e \in 1..2 : Len(Entries[e].v) = 2

\* the record under construction has exactly one entry for the key of the
\* e-th entry
OnlyOnce(e) == \A e2 \in 1..Len(Entries) : Entries[e2].k = Entries[e].k => e2 = e

\* C26: key set of arrayToRecord of src/src/array.ts. After any number of
\* records has been processed, the keys of the record are exactly the string
\* forms of the keys resolved from the processed records, each once; keys with
\* the same string form (1 and '1') share one entry, which holds the value of
\* the last such record; the record has no prototype, so that a name a plain
\* object inherits reads as undefined unless it is a resolved key; and a
\* resolved key that is such a name (constructor, __proto__) is an own entry
\* holding the value of its record.
C26_KeySet ==
    (Building /\ fn = "arrayToRecord") =>
        /\ {Entries[e].k : e \in 1..Len(Entries)}
              = {ToString(GetKey(heap, keyProp, Items[j]).v) : j \in 1..idx}
        /\ \A e \in 1..Len(Entries) : OnlyOnce(e) /\ IsValueOf(Entries[e].v, LastOf(e))
        /\ acc.proto = Null
        /\ \A k \in InheritedNames :
              ObjGet(heap, acc, k) = IF HasOwn(acc, k) THEN OwnGet(acc, k) ELSE Undef
        /\ \A j \in 1..idx :
              ToString(GetKey(heap, keyProp, Items[j]).v) \in InheritedNames =>
                  HasOwn(acc, ToString(GetKey(heap, keyProp, Items[j]).v))

\* arrayToRecord returned a record with the entries constructor, __proto__
\* and 1, the last shared by the keys 1 and '1' or held by one of them
C26_Witness ==
    /\ pc = "returned" /\ fn = "arrayToRecord" /\ keyProp = Prop("id")
    /\ Len(Items) = 3
    /\ HasOwn(acc, "constructor") /\ HasOwn(acc, "__proto__") /\ HasOwn(acc, "1")
    /\ acc.proto = Null
    /\ ObjGet(heap, acc, "toString") = Undef

RECURSIVE Built(_)
\* the Map and the heap that getKey, getValue and map.set of arrayToMap of
\* src/src/array.ts produce from the first n records
Built(n) ==
    IF n = 0 THEN [map |-> <<>>, heap |-> Pool]
    ELSE LET before == Built(n - 1)
             k == GetKey(before.heap, keyProp, Items[n])
             v == GetValue(k.heap, valueProps, Items[n])
         IN [map |-> MapSet(before.map, k.v, v.v), heap |-> v.heap]

\* the returned Map has the keys, in the order, and the values (the same
\* records, equal sub-records) that arrayToMap of src/src/array.ts returns
SameAsValidating ==
    /\ map = Built(Len(Items)).map
    /\ heap = Built(Len(Items)).heap

\* C27: the validating and the non-validating single-valued builders agree
\* on arrays. For every array, key field name and value selector that is
\* absent, a field name or a list of field names, arrayToMap of
\* src/src/array.ts, of src/unnamed/part_001 and of
\* src/src/transformers/array.ts do not fail and return Maps with the same
\* keys in the same order and equal values.
C27_CopiesAgree ==
    (fn \in ArrayToMaps /\ array.kind = "array") =>
        /\ pc # "thrown"
        /\ pc = "returned" => SameAsValidating

\* the same agreement for the value selectors that do not list __proto__
C27_CopiesAgreeOnFields ==
    (fn \in ArrayToMaps /\ array.kind = "array"
        /\ valueProps # List(<<"__proto__", "name">>)) =>
        /\ pc # "thrown"
        /\ pc = "returned" => SameAsValidating

\* arrayToMap of src/src/transformers/array.ts returned, for a list that
\* names __proto__, sub-records that differ from those of src/src/array.ts
C27_Witness ==
    /\ pc = "returned" /\ fn = "transformers/arrayToMap"
    /\ array.kind = "array" /\ Len(Items) >= 2
    /\ valueProps = List(<<"__proto__", "name">>)
    /\ map = Built(Len(Items)).map
    /\ \E e \in 1..Len(map) :
          /\ HasOwn(heap[map[e].v.n], "__proto__")
          /\ ~HasOwn(Built(Len(Items)).heap[map[e].v.n], "__proto__")

\* C28: the non-validating arrayToMap of src/unnamed/part_001, given a first
\* argument that is not an array (a string and a set included), fails with an
\* error: it processes no element and never returns a container.
C28_FailsOnNonArray ==
    (fn = "part_001/arrayToMap" /\ array.kind # "array") =>
        /\ pc \in {"called", "thrown"}
        /\ pc = "thrown" => error = "TypeError"
        /\ idx = 0 /\ map = <<>>

\* the non-validating arrayToMap returned a Map built from the elements of a
\* set or the characters of a string
C28_Witness ==
    /\ pc = "returned" /\ fn = "part_001/arrayToMap" /\ error = "none"
    /\ array.kind \in {"string", "set"}
    /\ idx = Len(Items) /\ Len(map) >= 1

\* the key arrayToMap reads from the j-th record for a key field name
FieldKey(j) == Get(Pool, Items[j], SelectorKey(keyProp))

\* the last of the first n records whose key is k
LastWith(k, n) ==
    CHOOSE j \in 1..n : FieldKey(j) = k /\ \A j2 \in (j + 1)..n : FieldKey(j2) # k

\* C29: position of a colliding key in arrayToMap of src/src/array.ts and of
\* src/src/transformers/array.ts. The keys of the Map are the distinct keys
\* of the processed records, each at the position of its first occurrence
\* among the distinct keys; the Map has exactly as many entries as there are
\* distinct keys; and the value under a key is the value of the last record
\* with that key.
C29_CollidingKeyPosition ==
    (/\ fn \in {"arrayToMap", "transformers/arrayToMap"}
     /\ array.kind = "array"
     /\ pc = "returned" \/ (pc = "loop" /\ fn = "arrayToMap")) =>
        /\ MapKeys(map) = FirstOccurrences([j \in 1..idx |-> FieldKey(j)])
        /\ Len(map) = Cardinality({FieldKey(j) : j \in 1..idx})
        /\ \A e \in 1..Len(map) : map[e].v = Projected(LastWith(map[e].k, idx))

\* an arrayToMap returned two entries for three records: the first and the
\* third record share a key, which is at the first position and holds the
\* value of the third record
C29_Witness ==
    /\ pc = "returned" /\ fn \in {"arrayToMap", "transformers/arrayToMap"}
    /\ array.kind = "array" /\ Len(Items) = 3 /\ Len(map) = 2
    /\ FieldKey(1) = FieldKey(3) /\ FieldKey(1) # FieldKey(2)
    /\ Items[1] # Items[3]
    /\ map[1].k = FieldKey(1)
    /\ map[1].v = Projected(3) /\ map[1].v # Projected(1)

RECURSIVE ItemsWith(_, _)
\* the records among the first n whose key is k, in input order
ItemsWith(k, n) ==
    IF n = 0 THEN <<>>
    ELSE IF FieldKey(n) = k THEN Append(ItemsWith(k, n - 1), Items[n])
         ELSE ItemsWith(k, n - 1)

RECURSIVE ArrangedBy(_)
\* the records of the input, key by key in the order of the keys given
ArrangedBy(keys) ==
    IF keys = <<>> THEN <<>>
    ELSE ItemsWith(keys[1], Len(Items)) \o ArrangedBy(Tail(keys))

\* the records of the input arranged by key in first-seen order and, within
\* one key, in input order
Arranged == ArrangedBy(FirstOccurrences([j \in 1..Len(Items) |-> FieldKey(j)]))

\* the result holds, in the arrangement by key, records with the fields and
\* values of the records of the input
ReturnsArranged ==
    /\ Len(out) = Len(Items)
    /\ \A i \in 1..Len(out) :
          PropsSet(heap[out[i].n]) = PropsSet(Pool[Arranged[i].n])

\* every record of the input has the key field
AllKeyed == \A j \in 1..Len(Items) : HasOwn(Pool[Items[j].n], keyProp.name)

\* C30 as stated: multi-valued round trip. For every array of records and
\* key field k, multiMapToArray(arrayToMultiMap(seq, k), k) with the value
\* selector absent returns exactly the records of seq (same number, fields
\* and values), arranged by key in first-seen order and, within one key, in
\* input order.
C30_MultiRoundTripAll ==
    (pc = "returned" /\ fn = "transformers/multiMapToArray") => ReturnsArranged

\* C30: multi-valued round trip. For every array of records that all have
\* the field k, multiMapToArray(arrayToMultiMap(seq, k), k) with the value
\* selector absent returns as many records as seq has; the i-th of them has
\* the fields and values of the i-th record of seq arranged by key in
\* first-seen order and, within one key, in input order.
C30_MultiRoundTrip ==
    (pc = "returned" /\ fn = "transformers/multiMapToArray" /\ AllKeyed) =>
        ReturnsArranged

\* the round trip returned three records, the third record of the input
\* before the second because it shares the key of the first
C30_Witness ==
    /\ pc = "returned" /\ fn = "transformers/multiMapToArray" /\ AllKeyed
    /\ Len(Items) = 3 /\ Len(out) = 3
    /\ FieldKey(1) = FieldKey(3) /\ FieldKey(1) # FieldKey(2)
    /\ Items[1] # Items[3]
    /\ PropsSet(heap[out[2].n]) = PropsSet(Pool[Items[3].n])
    /\ PropsSet(heap[out[3].n]) = PropsSet(Pool[Items[2].n])

====
